---- MODULE Spec2Model ----
(***************************************************************************)
(* Daemon control plane of avolut/backup: the PID file singleton, the      *)
(* in-process backup run lock, the signal handling goroutine and the       *)
(* non-daemon (one-shot) invocation, as coded in src/main.go and its       *)
(* variant src/unnamed/part_000, with the lock of src/unnamed/part_004.    *)
(*                                                                         *)
(* Every process of the program started in one working directory is an     *)
(* element of Procs (its pid).  A process runs main(); a daemon also runs  *)
(* the signal goroutine and the goroutines the cron scheduler starts.      *)
(***************************************************************************)
EXTENDS Integers, Sequences, FiniteSets, TLC

\* ---------------------------------------------------------------- bounds
MaxProcs == 2        \* number of program invocations in one working directory
FirstPid == 9        \* pid of the first invocation (9, 10: one and two digits)
MaxCron  == 1        \* cron goroutines that may be alive at once in a daemon
MaxAddrs == 2        \* addresses a host has, and the longest list of one interface
MaxKeys  == 3        \* keys generateHostKey hands out: two at a first start, one at a restart
MaxShells == 2       \* handleShell goroutines on one session channel
MaxItems == 2        \* directories, and databases, in backup.yaml
MaxStarts == 2       \* calls of Server.Start whose net.Listen succeeds
MaxName == 2         \* length of a job name

\* ------------------------------------------------------ program constants
SigCap == 1          \* make(chan os.Signal, 1)

Procs     == FirstPid .. (FirstPid + MaxProcs - 1)
DeadPid   == FirstPid - 1          \* a pid of no process of the model
MainTask  == <<"main", 0>>           \* the goroutine of main()
SigTask   == <<"sig", 0>>            \* the signal handling goroutine
CronTasks == {<<"cron", i>> : i \in 1..MaxCron}   \* goroutines of cron jobs
Tasks     == {MainTask, SigTask} \cup CronTasks
NoTask    == <<"none", 0>>

Signals     == {"SIGUSR1", "SIGTERM", "SIGQUIT", "SIGINT"}
TermSignals == {"SIGTERM", "SIGQUIT", "SIGINT"}
Builds      == {"main.go", "part_000"}

\* ------------------------------------------------------ strconv, strings
Digits == <<"0", "1", "2", "3", "4", "5", "6", "7", "8", "9">>
DigitSet == {Digits[i] : i \in 1..10}
DigitVal(c) == CHOOSE i \in 0..9 : Digits[i + 1] = c

RECURSIVE Itoa(_)
\* strconv.Itoa for n >= 0 (pids are positive)
Itoa(n) == IF n < 10 THEN <<Digits[n + 1]>>
           ELSE Itoa(n \div 10) \o <<Digits[(n % 10) + 1]>>

RECURSIVE AtoiVal(_)
AtoiVal(s) == IF s = << >> THEN 0
              ELSE AtoiVal(SubSeq(s, 1, Len(s) - 1)) * 10 + DigitVal(s[Len(s)])

\* strconv.Atoi: an error unless the string is a non-empty run of digits
AtoiOk(s) == Len(s) > 0 /\ \A i \in 1..Len(s) : s[i] \in DigitSet
Atoi(s) == IF AtoiOk(s) THEN [ok |-> TRUE, val |-> AtoiVal(s)]
           ELSE [ok |-> FALSE, val |-> 0]

IsSpace(c) == c \in {"\n", " "}
RECURSIVE TrimLeft(_)
TrimLeft(s) == IF s # << >> /\ IsSpace(Head(s)) THEN TrimLeft(Tail(s)) ELSE s
RECURSIVE TrimRight(_)
TrimRight(s) == IF s # << >> /\ IsSpace(s[Len(s)])
                THEN TrimRight(SubSeq(s, 1, Len(s) - 1)) ELSE s
\* strings.TrimSpace
TrimSpace(s) == TrimRight(TrimLeft(s))

\* ----------------------------------------------------------------- state
VARIABLES
  build,            \* which main package the installed binary was built from
  pidFile,          \* .avolut/daemon.pid: [exists, readable, data]
  mode,             \* per process: "none" (not started), "daemon", "oneshot"
  pc,               \* per process: position of main()
  pidData,          \* per process: local pidData of main(), while it is live
  sig,              \* per process: the channel sig
  cronOn,           \* per process: the cron scheduler is started, not stopped
  router,           \* per process: position of the signal goroutine
  rpc,              \* per process and task: position inside runBackup
  status,           \* per process and task: outcome of the current runBackup
  isBackupRunning,  \* per process: utils.isBackupRunning
  backupLock,       \* per process: holder of utils.backupLock, or NoTask
  busyAtCall,       \* history: isBackupRunning when the task called runBackup
  exit,             \* per process: how it ended ("none" while it has not)
  store,            \* the object store under the daemon's name: [ips, key]
  cpc,              \* rendezvous client: position inside ConnectToHost
  ipInfo,           \* rendezvous client: the snapshot it downloaded
  keyLoaded,        \* rendezvous client: priv.key is downloaded and parsed
  todo,             \* rendezvous client: interfaces the range has not reached
  ips,              \* rendezvous client: rest of the current interface's list
  ip,               \* rendezvous client: the candidate of this iteration
  lastErr,          \* rendezvous client: lastErr
  result,           \* rendezvous client: what ConnectToHost returned
  probes,           \* history: the candidates isPortOpen was called for
  ndials,           \* history: number of ssh.Dial calls
  sessions,         \* history: number of sessions whose shell was started
  keyFile,          \* shell server: .avolut/priv.key
  hostKey,          \* shell server: the host key of its ssh.ServerConfig
  nkeys,            \* shell server: keys generateHostKey has handed out
  srv,              \* shell server: position in NewServer and Start
  conn,             \* shell server: the connection handleConnection serves
  auth,             \* history: the last decision of handlePublicKey
  opened,           \* history: the last channel-open and its answer
  ch,               \* shell server: the accepted session channel
  lastReq,          \* history: the last channel request and its reply
  sh,               \* shell server: the handleShell goroutines of the channel
  peer,             \* shell server: the handleConnection goroutine of another client
  pubInfo,          \* history: the ipInfo CollectAndStoreIPs uploaded last
  svc,              \* the sshd.Server object under calls of Start and Stop, with its accept loops
  bucket,           \* the object-store bucket that daemons of several job names share
  rival,            \* a second daemon of the directory: position in NewServer and Start
  run               \* runBackup: config, loop position and hasErrors of the run body

\* the daemon control plane in one working directory
localVars == <<build, pidFile, mode, pc, pidData, sig, cronOn, router, rpc,
               status, isBackupRunning, backupLock, busyAtCall, exit>>

\* the rendezvous client
connVars == <<cpc, ipInfo, keyLoaded, todo, ips, ip, lastErr, result,
              probes, ndials, sessions>>

\* the shell server: its credential and one connection
credVars    == <<keyFile, hostKey, nkeys, srv, conn, auth>>
sessionVars == <<opened, ch, lastReq, sh>>
sshdVars    == <<credVars, sessionVars>>

\* another connection to the shell server, the publisher's snapshot and the
\* body of the backup run
auxVars == <<peer, pubInfo, run, rival, svc, bucket>>

\* the daemon control plane with what only its own steps change
homeVars == <<localVars, auxVars>>

\* what is outside the daemon control plane: the object store, the operator's
\* client and the shell server
remoteVars == <<store, connVars, sshdVars, auxVars>>

vars == <<localVars, remoteVars>>

NoFile == [exists |-> FALSE, readable |-> FALSE, data |-> << >>]
File(d) == [exists |-> TRUE, readable |-> TRUE, data |-> d]

\* a process exists in the OS process table
Alive(p) == p \in Procs /\ mode[p] # "none" /\ pc[p] # "exited"

\* no process of the working directory is alive
NoneAlive == \A q \in Procs : ~Alive(q)

\* proc.Signal(syscall.Signal(0)) returns nil
ProbeOk(n) == Alive(n)

IdleTasks == [t \in Tasks |-> "idle"]
NoStatus  == [t \in Tasks |-> "none"]
NoBusy    == [t \in Tasks |-> FALSE]

InitProcs ==
  /\ build \in Builds
  /\ mode = [p \in Procs |-> "none"]
  /\ pc = [p \in Procs |-> "none"]
  /\ pidData = [p \in Procs |-> << >>]
  /\ sig = [p \in Procs |-> << >>]
  /\ cronOn = [p \in Procs |-> FALSE]
  /\ router = [p \in Procs |-> "off"]
  /\ rpc = [p \in Procs |-> IdleTasks]
  /\ status = [p \in Procs |-> NoStatus]
  /\ isBackupRunning = [p \in Procs |-> FALSE]
  /\ backupLock = [p \in Procs |-> NoTask]
  /\ busyAtCall = [p \in Procs |-> NoBusy]
  /\ exit = [p \in Procs |-> "none"]

\* nothing is published and no operator runs the client
NoTime  == [sec |-> 0, nsec |-> 0]
NoBlob  == [kind |-> "none", host |-> "", ts |-> NoTime, ifs |-> << >>]
Garbage == [kind |-> "garbage", host |-> "", ts |-> NoTime, ifs |-> << >>]
NoKey   == <<"none", 0>>
BadKey  == <<"garbage", 0>>
Key(n)  == <<"key", n>>
NoStore == [ips |-> NoBlob, key |-> NoKey]
NoEntry == [if |-> "none", ix |-> 0, addr |-> 0]
NoErr   == <<"nil", 0>>
Result(k, a, e) == [kind |-> k, addr |-> a, err |-> e]

ClientOff ==
  /\ cpc = "off"
  /\ ipInfo = NoBlob
  /\ keyLoaded = FALSE
  /\ todo = {}
  /\ ips = << >>
  /\ ip = NoEntry
  /\ lastErr = NoErr
  /\ result = Result("none", 0, NoErr)
  /\ probes = << >>
  /\ ndials = 0
  /\ sessions = 0

Shells  == 1 .. MaxShells

\* no channel is open on the connection to the shell server
NoSession ==
  /\ opened = [type |-> "none", reply |-> "none"]
  /\ ch = "none"
  /\ lastReq = [type |-> "none", want |-> FALSE, empty |-> TRUE, reply |-> "none"]
  /\ sh = [s \in Shells |->
             [pc |-> "none", pty |-> "none", proc |-> "none", cp |-> "none"]]

\* the shell server is not created
ServerOff ==
  /\ keyFile = NoKey /\ hostKey = NoKey /\ nkeys = 0
  /\ srv = "off" /\ conn = "none"
  /\ auth = [key |-> NoKey, user |-> "none", ok |-> FALSE]
  /\ NoSession

\* the accept loops of a Server, one for each Start that succeeded
Loops == 1 .. MaxStarts
NoLoop == [pc |-> "none", on |-> 0]

\* what the last call of Start or Stop returned; tick tells one return from
\* the next
NoCall == [op |-> "none", ok |-> FALSE, tick |-> 0]

\* no Server is constructed
NoSvc == [made |-> FALSE, isDaemon |-> FALSE, running |-> FALSE,
          listener |-> 0, open |-> {}, nlisten |-> 0, call |-> "none",
          loops |-> [k \in Loops |-> NoLoop],
          last |-> NoCall, lastOk |-> "none", by |-> 0]

\* the daemons of two jobs that share the bucket; nothing is uploaded and
\* no job name is chosen
Tenants == {"one", "other"}
NoBucket == [name |-> [j \in Tenants |-> << >>], objs |-> {},
             got |-> [for |-> "none", ips |-> FALSE, key |-> FALSE]]

\* no second daemon has a server
NoRival == [at |-> "off", key |-> NoKey]

\* no other client is connected, nothing was collected, no run body is entered
NoRun == [at |-> "none", dirs |-> 0, dbs |-> 0, tried |-> << >>,
          hasErrors |-> FALSE, report |-> "none",
          files |-> "none", dbRepo |-> "none", ctx |-> "none",
          defers |-> << >>, out |-> "none"]
AuxOff ==
  /\ peer = "none" /\ pubInfo = NoBlob /\ run = NoRun
  /\ rival = NoRival
  /\ svc = NoSvc
  /\ bucket = NoBucket

InitRemote == store = NoStore /\ ClientOff /\ ServerOff /\ AuxOff

\* a fresh working directory, no PID file, and the binary built from
\* src/main.go, whose daemon has no shell server and publishes nothing
Init == InitProcs /\ build = "main.go" /\ pidFile = NoFile /\ InitRemote

\* the same with the binary built from part_000
InitServer == InitProcs /\ build = "part_000" /\ pidFile = NoFile /\ InitRemote

\* what an earlier daemon, or an editor, may have left in .avolut/daemon.pid
LeftFiles ==
  { File(Itoa(DeadPid)),                    \* pid of a process that is gone
    File(Itoa(DeadPid) \o <<"\n">>),        \* the same, newline-terminated
    File(<<"x">>),                          \* not a decimal integer
    [exists |-> TRUE, readable |-> FALSE, data |-> << >>] }

InitLeft == InitProcs /\ build = "main.go" /\ pidFile \in LeftFiles /\ InitRemote

\* the process that runs the shell server ends: its listener, its connections
\* and its ssh.ServerConfig go with it; the files stay
ServerDies == srv' = "off" /\ conn' = "none" /\ hostKey' = NoKey

\* ------------------------------------------------------------ the run lock
\* a TryLock that takes the lock without looking at the mutex or the flag
TryLockNoTest(p, t, locked) ==
  /\ locked = TRUE
  /\ isBackupRunning' = [isBackupRunning EXCEPT ![p] = TRUE]
  /\ backupLock' = [backupLock EXCEPT ![p] = t]

\* utils.TryLock: backupLock.Lock() blocks while the mutex is held; the mutex
\* stays held when TryLock returns true.
TryLock(p, t, locked) ==
  /\ backupLock[p] = NoTask
  /\ IF isBackupRunning[p]
     THEN /\ locked = FALSE
          /\ UNCHANGED <<isBackupRunning, backupLock>>
     ELSE /\ locked = TRUE
          /\ isBackupRunning' = [isBackupRunning EXCEPT ![p] = TRUE]
          /\ backupLock' = [backupLock EXCEPT ![p] = t]

\* an Unlock that releases the mutex and leaves the flag set
UnlockKeepsFlag(p) ==
  /\ backupLock' = [backupLock EXCEPT ![p] = NoTask]
  /\ UNCHANGED isBackupRunning

\* utils.Unlock
Unlock(p) ==
  /\ isBackupRunning' = [isBackupRunning EXCEPT ![p] = FALSE]
  /\ backupLock' = [backupLock EXCEPT ![p] = NoTask]

\* ------------------------------------------------------------- processes
\* the process ends: os.Exit, log.Fatal, or main() returns; its goroutines,
\* its channel and its lock go with it
Exit(p, code) ==
  /\ pc' = [pc EXCEPT ![p] = "exited"]
  /\ exit' = [exit EXCEPT ![p] = code]
  /\ pidData' = [pidData EXCEPT ![p] = << >>]
  /\ sig' = [sig EXCEPT ![p] = << >>]
  /\ cronOn' = [cronOn EXCEPT ![p] = FALSE]
  /\ router' = [router EXCEPT ![p] = "off"]
  /\ rpc' = [rpc EXCEPT ![p] = IdleTasks]
  /\ status' = [status EXCEPT ![p] = NoStatus]
  /\ isBackupRunning' = [isBackupRunning EXCEPT ![p] = FALSE]
  /\ backupLock' = [backupLock EXCEPT ![p] = NoTask]
  /\ busyAtCall' = [busyAtCall EXCEPT ![p] = NoBusy]

Goto(p, l) == pc' = [pc EXCEPT ![p] = l]

runVars  == <<rpc, status, isBackupRunning, backupLock, busyAtCall>>
procVars == <<sig, cronOn, router, exit>>

\* pids are handed out in increasing order
NextPid == CHOOSE p \in Procs : mode[p] = "none" /\ \A q \in Procs : q < p => mode[q] # "none"

\* main() up to the mode test; in daemon mode also signal.Notify, MkdirAll
\* and the log file
Launch(m) ==
  /\ \E p \in Procs : mode[p] = "none"
  /\ LET p == NextPid IN
       /\ mode' = [mode EXCEPT ![p] = m]
       /\ Goto(p, IF m = "daemon" THEN "stat" ELSE "nread")
  /\ UNCHANGED <<remoteVars, build, pidFile, pidData>>
  /\ UNCHANGED procVars /\ UNCHANGED runVars

\* signal.Notify's delivery: a non-blocking send on the channel
Notify(p, s) ==
  sig' = [sig EXCEPT ![p] = IF Len(@) < SigCap THEN Append(@, s) ELSE @]

\* ---------------------------------------------------- daemon mode of main()
IsDaemonAt(p, l) == mode[p] = "daemon" /\ pc[p] = l

\* os.Stat(".avolut/daemon.pid")
DStat(p) ==
  /\ IsDaemonAt(p, "stat")
  /\ Goto(p, IF pidFile.exists THEN "read" ELSE "write")
  /\ UNCHANGED <<remoteVars, build, pidFile, mode, pidData>>
  /\ UNCHANGED procVars /\ UNCHANGED runVars

\* the pid a daemon startup parses: strconv.Atoi(string(pidData))
DaemonParse(data) == Atoi(data)

\* os.ReadFile and strconv.Atoi
DRead(p) ==
  /\ IsDaemonAt(p, "read")
  /\ IF pidFile.exists /\ pidFile.readable
     THEN /\ pidData' = [pidData EXCEPT ![p] =
                         IF DaemonParse(pidFile.data).ok THEN pidFile.data ELSE << >>]
          /\ Goto(p, IF DaemonParse(pidFile.data).ok THEN "probe" ELSE "remove")
     ELSE /\ Goto(p, "remove")
          /\ UNCHANGED pidData
  /\ UNCHANGED <<remoteVars, build, pidFile, mode>>
  /\ UNCHANGED procVars /\ UNCHANGED runVars

\* a stale check without the log.Fatalf: the probe's answer is ignored
DProbeNoFatal(p) ==
  /\ IsDaemonAt(p, "probe")
  /\ Goto(p, "remove")
  /\ pidData' = [pidData EXCEPT ![p] = << >>]
  /\ UNCHANGED <<remoteVars, build, pidFile, mode>>
  /\ UNCHANGED procVars /\ UNCHANGED runVars

\* os.FindProcess and proc.Signal(syscall.Signal(0)); log.Fatalf if it answers
DProbe(p) ==
  /\ IsDaemonAt(p, "probe")
  /\ IF ProbeOk(DaemonParse(pidData[p]).val)
     THEN Exit(p, "AlreadyRunning")
     ELSE /\ Goto(p, "remove")
          /\ pidData' = [pidData EXCEPT ![p] = << >>]
          /\ UNCHANGED procVars /\ UNCHANGED runVars
  /\ UNCHANGED <<remoteVars, build, pidFile, mode>>

\* a stale check that logs "Removing stale PID file..." and leaves the file
DRemoveKeeps(p) ==
  /\ IsDaemonAt(p, "remove")
  /\ Goto(p, "write")
  /\ UNCHANGED <<remoteVars, build, pidFile, mode, pidData>>
  /\ UNCHANGED procVars /\ UNCHANGED runVars

\* os.Remove(".avolut/daemon.pid") of the stale check
DRemove(p) ==
  /\ IsDaemonAt(p, "remove")
  /\ pidFile' = NoFile
  /\ Goto(p, "write")
  /\ UNCHANGED <<remoteVars, build, mode, pidData>>
  /\ UNCHANGED procVars /\ UNCHANGED runVars

\* os.WriteFile(".avolut/daemon.pid", []byte(strconv.Itoa(pid)), 0644)
DWrite(p) ==
  /\ IsDaemonAt(p, "write")
  /\ pidFile' = File(Itoa(p))
  /\ Goto(p, "loadcfg")
  /\ UNCHANGED <<remoteVars, build, mode, pidData>>
  /\ UNCHANGED procVars /\ UNCHANGED runVars

\* the exit status: 1 from log.Fatalf, 0 from os.Exit(0) and from the return
\* of main()
ExitCode(e) == IF e \in {"Shutdown", "Triggered", "OneTimeBackup"} THEN 0 ELSE 1

\* main() in daemon mode when os.MkdirAll(".avolut") or the opening of
\* daemon.log fails: log.Fatalf
DMkdirFails ==
  /\ \E p \in Procs : mode[p] = "none"
  /\ LET p == NextPid IN
       /\ mode' = [mode EXCEPT ![p] = "daemon"]
       /\ Exit(p, "DirError")
  /\ UNCHANGED <<remoteVars, build, pidFile>>

\* a failed write of the PID file that is logged only
DWriteFailsLogged(p) ==
  /\ IsDaemonAt(p, "write")
  /\ Goto(p, "loadcfg")
  /\ UNCHANGED <<remoteVars, build, pidFile, mode, pidData>>
  /\ UNCHANGED procVars /\ UNCHANGED runVars

\* os.WriteFile(".avolut/daemon.pid") fails, before or after it has created
\* the file: log.Fatalf
DWriteFails(p) ==
  /\ IsDaemonAt(p, "write")
  /\ Exit(p, "PidFileError")
  /\ \E created \in BOOLEAN : pidFile' = IF created THEN File(<< >>) ELSE pidFile
  /\ UNCHANGED <<remoteVars, build, mode>>

\* config.LoadConfig("backup.yaml"); log.Fatalf on error
DLoadConfig(p) ==
  /\ IsDaemonAt(p, "loadcfg")
  /\ \E ok \in BOOLEAN :
       IF ok THEN /\ Goto(p, "cron")
                  /\ UNCHANGED <<pidData>>
                  /\ UNCHANGED procVars /\ UNCHANGED runVars
             ELSE Exit(p, "ConfigError")
  /\ UNCHANGED <<remoteVars, build, pidFile, mode>>

\* cron.New, c.AddFunc (log.Fatalf on error), c.Start
DCron(p) ==
  /\ IsDaemonAt(p, "cron")
  /\ \E ok \in BOOLEAN :
       IF ok THEN /\ Goto(p, IF build = "part_000" THEN "sshd" ELSE "go")
                  /\ cronOn' = [cronOn EXCEPT ![p] = TRUE]
                  /\ UNCHANGED <<pidData, sig, router, exit>>
                  /\ UNCHANGED runVars
             ELSE Exit(p, "CronError")
  /\ UNCHANGED <<remoteVars, build, pidFile, mode>>

\* go func() { for { received := <-sig ... } }(); then select {}
DGo(p) ==
  /\ IsDaemonAt(p, "go")
  /\ router' = [router EXCEPT ![p] = "recv"]
  /\ Goto(p, "serve")
  /\ UNCHANGED <<remoteVars, build, pidFile, mode, pidData, sig, cronOn, exit>>
  /\ UNCHANGED runVars

\* ------------------------------------------------------------- runBackup
\* a goroutine t of process p calls runBackup
CallRun(p, t) ==
  /\ rpc' = [rpc EXCEPT ![p][t] = "lock"]
  /\ busyAtCall' = [busyAtCall EXCEPT ![p][t] = isBackupRunning[p]]
  /\ UNCHANGED <<status, isBackupRunning, backupLock>>

\* runBackup has returned to its caller
ReturnRun(p, t) ==
  /\ rpc' = [rpc EXCEPT ![p][t] = "idle"]
  /\ status' = [status EXCEPT ![p][t] = "none"]
  /\ busyAtCall' = [busyAtCall EXCEPT ![p][t] = FALSE]
  /\ UNCHANGED <<isBackupRunning, backupLock>>

InRun(p, t, l) == Alive(p) /\ rpc[p][t] = l

RunStep(p, t, l, st) ==
  /\ rpc' = [rpc EXCEPT ![p][t] = l]
  /\ status' = [status EXCEPT ![p][t] = st]
  /\ UNCHANGED <<isBackupRunning, backupLock, busyAtCall>>
  /\ UNCHANGED <<remoteVars, build, pidFile, mode, pc, pidData>>
  /\ UNCHANGED procVars

\* locked, err := utils.TryLock(); "Another backup is already in progress"
RTryLock(p, t) ==
  /\ InRun(p, t, "lock")
  /\ \E locked \in BOOLEAN :
       /\ TryLock(p, t, locked)
       /\ rpc' = [rpc EXCEPT ![p][t] = IF locked THEN "body" ELSE "ret"]
       /\ status' = [status EXCEPT ![p][t] = IF locked THEN "running" ELSE "skipped"]
  /\ UNCHANGED <<remoteVars, build, pidFile, mode, pc, pidData, busyAtCall>>
  /\ UNCHANGED procVars

\* the ways the body of runBackup ends
Outcomes == {"configError", "fileRepoError", "dbRepoError",
             "completed", "hasErrors", "panic"}

\* the deferred Unlock registered only after LoadConfig: a configuration
\* error returns without it
ExitPathLateDefer(r) == IF r = "configError" THEN "ret" ELSE "unlock"

\* where control goes when the body ends with outcome r: every return and
\* every panic runs the deferred functions, the first of which was deferred
\* right after the lock was taken
ExitPath(r) == "unlock"

\* the body of runBackup after the lock is taken: LoadConfig, the two
\* ConnectToRepository, the two loops, and the deferred Close and cancel
RBody(p, t) ==
  /\ InRun(p, t, "body")
  /\ \E r \in Outcomes :
       RunStep(p, t, ExitPath(r), IF r = "panic" THEN "panicking" ELSE "returning")

\* the first deferred function: utils.Unlock(), then recover()
RUnlock(p, t) ==
  /\ InRun(p, t, "unlock")
  /\ Unlock(p)
  /\ rpc' = [rpc EXCEPT ![p][t] = "ret"]
  /\ status' = [status EXCEPT ![p][t] = IF @ = "panicking" THEN "recovered" ELSE "returned"]
  /\ UNCHANGED busyAtCall
  /\ UNCHANGED <<remoteVars, build, pidFile, mode, pc, pidData>>
  /\ UNCHANGED procVars

\* ------------------------------------------ the body of runBackup in steps
\* the directories and the databases of backup.yaml, in the order of the file
Configs == [dirs : 0..MaxItems, dbs : 0..MaxItems]

\* an entry of the log of attempts: BackupDir or BackupDatabase was called for
\* item ix of its list and returned nil, returned an error, or panicked
Attempt(k, ix, end) == [kind |-> k, ix |-> ix, end |-> end]
ItemEnds == {"nil", "error", "panic"}

\* a step of the body that leaves runBackup where it is
BodyStep(p, t, new) ==
  /\ InRun(p, t, "body")
  /\ run' = new
  /\ UNCHANGED <<peer, pubInfo, rival, svc, bucket, store, connVars, sshdVars>>
  /\ UNCHANGED <<build, pidFile, mode, pc, pidData>>
  /\ UNCHANGED procVars /\ UNCHANGED runVars

\* a step of the body at which runBackup returns or panics: the deferred
\* functions run next
BodyEnds(p, t, r, new) ==
  /\ InRun(p, t, "body")
  /\ run' = [new EXCEPT !.at = "defers", !.out = r]
  /\ status' = [status EXCEPT ![p][t] = IF r = "panic" THEN "panicking" ELSE "returning"]
  /\ UNCHANGED <<rpc, isBackupRunning, backupLock, busyAtCall>>
  /\ UNCHANGED <<peer, pubInfo, rival, svc, bucket, store, connVars, sshdVars>>
  /\ UNCHANGED <<build, pidFile, mode, pc, pidData>>
  /\ UNCHANGED procVars

\* context.WithCancel and "defer cancel()"
NewRun == [NoRun EXCEPT !.ctx = "live", !.defers = <<"cancel">>]

\* ctx, cancel := context.WithCancel(ctx); config.LoadConfig("backup.yaml"),
\* utils.InitProgress
BLoadConfig(p, t) ==
  /\ run.at \in {"none", "returned"}
  /\ \/ BodyEnds(p, t, "configError", NewRun)
     \/ \E c \in Configs :
          BodyStep(p, t, [NewRun EXCEPT !.at = "fileRepo", !.dirs = c.dirs, !.dbs = c.dbs])

\* the ways ConnectToRepository ends: with an error before repo.Open has
\* returned a repository (MkdirAll, MarshalIndent, WriteFile, repo.Open), with
\* an error after it (b2.New, repo.Initialize, repo.Connect: the opened
\* repository is dropped), or with the repository
ConnectEnds == {"errorBeforeOpen", "errorAfterOpen", "nil"}

\* what becomes of the repository when ConnectToRepository ends with end
Opened(end) ==
  CASE end = "errorBeforeOpen" -> "none"
    [] end = "errorAfterOpen"  -> "dropped"
    [] OTHER                   -> "open"

\* the run record after ConnectToRepository of the repository at run.at has
\* ended with end; after nil the Close of the repository is deferred
Connected(end) ==
  IF run.at = "fileRepo"
  THEN [run EXCEPT !.files = Opened(end),
                   !.defers = IF end = "nil" THEN Append(@, "closeFiles") ELSE @,
                   !.at = "dbRepo"]
  ELSE [run EXCEPT !.dbRepo = Opened(end),
                   !.defers = IF end = "nil" THEN Append(@, "closeDbs") ELSE @,
                   !.at = "dirs"]

\* a runBackup that logs a failed connection and goes on
BConnectGoesOn(p, t) ==
  /\ run.at \in {"fileRepo", "dbRepo"}
  /\ \E end \in ConnectEnds : BodyStep(p, t, Connected(end))

\* repository.ConnectToRepository for the files, then for the databases;
\* runBackup returns when it fails
BConnect(p, t) ==
  /\ run.at \in {"fileRepo", "dbRepo"}
  /\ \E end \in ConnectEnds :
       IF end = "nil" THEN BodyStep(p, t, Connected(end))
       ELSE BodyEnds(p, t, IF run.at = "fileRepo" THEN "fileRepoError" ELSE "dbRepoError",
                     Connected(end))

\* the attempts of the items of list k made so far
Tried(k) == SelectSeq(run.tried, LAMBDA a : a.kind = k)

\* a loop that is left at the first item whose backup returns an error
AfterItemBreaks(loop, end) == IF end = "error" THEN "report" ELSE loop

\* where the loop goes after an item: "continue" after an error, the end of
\* the loop body otherwise; both lead to the loop's next item
AfterItem(loop, end) == loop

\* one iteration of "for _, dir := range config.Directories", or the end of
\* the loop: backup.BackupDir
BDir(p, t) ==
  /\ run.at = "dirs"
  /\ IF Len(Tried("dir")) = run.dirs
     THEN BodyStep(p, t, [run EXCEPT !.at = "dbs"])
     ELSE \E end \in ItemEnds :
            LET new == [run EXCEPT
                          !.tried = Append(@, Attempt("dir", Len(Tried("dir")) + 1, end)),
                          !.hasErrors = @ \/ end = "error",
                          !.at = IF end = "panic" THEN "returned"
                                 ELSE AfterItem("dirs", end)]
            IN IF end = "panic" THEN BodyEnds(p, t, "panic", new)
               ELSE BodyStep(p, t, new)

\* one iteration of "for _, db := range config.Databases", or the end of the
\* loop: backup.BackupDatabase
BDb(p, t) ==
  /\ run.at = "dbs"
  /\ IF Len(Tried("db")) = run.dbs
     THEN BodyStep(p, t, [run EXCEPT !.at = "report"])
     ELSE \E end \in ItemEnds :
            LET new == [run EXCEPT
                          !.tried = Append(@, Attempt("db", Len(Tried("db")) + 1, end)),
                          !.hasErrors = @ \/ end = "error",
                          !.at = IF end = "panic" THEN "returned"
                                 ELSE AfterItem("dbs", end)]
            IN IF end = "panic" THEN BodyEnds(p, t, "panic", new)
               ELSE BodyStep(p, t, new)

\* if hasErrors: "Backup completed ... with some errors", else "Backup
\* completed successfully"; runBackup returns
BReport(p, t) ==
  /\ run.at = "report"
  /\ BodyEnds(p, t, IF run.hasErrors THEN "hasErrors" ELSE "completed",
              [run EXCEPT !.at = "returned",
                          !.report = IF run.hasErrors THEN "withErrors" ELSE "success"])

\* the deferred function that runs next: the one deferred last
NextDeferred(ds) == Len(ds)

\* what a deferred function of the body does to the run record: dbRepo.Close,
\* fileRepo.Close (an error is logged), cancel()
Deferred(d) ==
  CASE d = "closeDbs"   -> [run EXCEPT !.dbRepo = "closed"]
    [] d = "closeFiles" -> [run EXCEPT !.files = "closed"]
    [] OTHER            -> [run EXCEPT !.ctx = "cancelled"]

\* runBackup has returned or panicked: the deferred functions of the body run,
\* also after one of them panics; the one deferred first, with utils.Unlock,
\* is left for last
BDeferred(p, t) ==
  /\ InRun(p, t, "body") /\ run.at = "defers"
  /\ LET k    == NextDeferred(run.defers)
         rest == [i \in 1..(Len(run.defers) - 1) |->
                    run.defers[IF i < k THEN i ELSE i + 1]]
         new  == [Deferred(run.defers[k]) EXCEPT
                    !.defers = rest,
                    !.at = IF rest = << >> THEN "returned" ELSE "defers"]
     IN /\ run' = new
        /\ rpc' = [rpc EXCEPT ![p][t] = IF rest = << >> THEN ExitPath(run.out) ELSE @]
        /\ \E end \in IF run.defers[k] = "cancel" THEN {"nil"} ELSE ItemEnds :
             status' = [status EXCEPT ![p][t] = IF end = "panic" THEN "panicking" ELSE @]
  /\ UNCHANGED <<isBackupRunning, backupLock, busyAtCall>>
  /\ UNCHANGED <<peer, pubInfo, rival, svc, bucket, store, connVars, sshdVars>>
  /\ UNCHANGED <<build, pidFile, mode, pc, pidData>>
  /\ UNCHANGED procVars

\* ------------------------------------------------------- cron scheduler
\* the scheduler fires the job: robfig/cron starts it in a goroutine of its own
CronFire(p, t) ==
  /\ Alive(p) /\ cronOn[p] /\ t \in CronTasks /\ rpc[p][t] = "idle"
  /\ CallRun(p, t)
  /\ UNCHANGED <<remoteVars, build, pidFile, mode, pc, pidData>>
  /\ UNCHANGED procVars

\* "Scheduled backup completed": the job's goroutine ends
CronDone(p, t) ==
  /\ t \in CronTasks /\ InRun(p, t, "ret")
  /\ ReturnRun(p, t)
  /\ UNCHANGED <<remoteVars, build, pidFile, mode, pc, pidData>>
  /\ UNCHANGED procVars

\* ------------------------------------------------- the signal goroutine
\* the signals an operator sends in Spec and SpecLeft: SIGQUIT and SIGINT take
\* the same case of the switch as SIGTERM, and SIGUSR1 comes from the
\* non-daemon invocations (SpecDaemon sends all four)
DirSignals == {"SIGTERM"}

\* the kernel delivers signal s to daemon p (kill from an operator)

EnvSignal(p, s) ==
  /\ Alive(p) /\ mode[p] = "daemon"
  /\ Notify(p, s)
  /\ UNCHANGED <<remoteVars, build, pidFile, mode, pc, pidData, cronOn, router, exit>>
  /\ UNCHANGED runVars

\* a loop that hands the trigger to a goroutine of its own (go runBackup)
\* and receives again
RouterRecvSpawns(p) ==
  /\ Alive(p) /\ router[p] = "recv" /\ sig[p] # << >>
  /\ sig' = [sig EXCEPT ![p] = Tail(@)]
  /\ IF Head(sig[p]) = "SIGUSR1"
     THEN /\ rpc[p][SigTask] = "idle"
          /\ UNCHANGED router
          /\ CallRun(p, SigTask)
     ELSE /\ router' = [router EXCEPT ![p] = "stop"]
          /\ UNCHANGED runVars
  /\ UNCHANGED <<remoteVars, build, pidFile, mode, pc, pidData, cronOn, exit>>

\* received := <-sig; switch received
RouterRecv(p) ==
  /\ Alive(p) /\ router[p] = "recv" /\ sig[p] # << >>
  /\ sig' = [sig EXCEPT ![p] = Tail(@)]
  /\ IF Head(sig[p]) = "SIGUSR1"
     THEN /\ router' = [router EXCEPT ![p] = "run"]
          /\ CallRun(p, SigTask)
     ELSE /\ router' = [router EXCEPT ![p] = "stop"]
          /\ UNCHANGED runVars
  /\ UNCHANGED <<remoteVars, build, pidFile, mode, pc, pidData, cronOn, exit>>

\* "Triggered backup completed": back to the receive
RouterDone(p) ==
  /\ router[p] = "run" /\ InRun(p, SigTask, "ret")
  /\ ReturnRun(p, SigTask)
  /\ router' = [router EXCEPT ![p] = "recv"]
  /\ UNCHANGED <<remoteVars, build, pidFile, mode, pc, pidData, sig, cronOn, exit>>

\* a shutdown branch that exits after c.Stop()
RouterStopExits(p) ==
  /\ Alive(p) /\ router[p] = "stop"
  /\ cronOn' = [cronOn EXCEPT ![p] = FALSE]
  /\ router' = [router EXCEPT ![p] = "exit"]
  /\ UNCHANGED <<remoteVars, build, pidFile, mode, pc, pidData, sig, exit>>
  /\ UNCHANGED runVars

\* c.Stop()
RouterStop(p) ==
  /\ Alive(p) /\ router[p] = "stop"
  /\ cronOn' = [cronOn EXCEPT ![p] = FALSE]
  /\ router' = [router EXCEPT ![p] = "remove"]
  /\ UNCHANGED <<remoteVars, build, pidFile, mode, pc, pidData, sig, exit>>
  /\ UNCHANGED runVars

\* os.Remove(".avolut/daemon.pid") of the shutdown
RouterRemove(p) ==
  /\ Alive(p) /\ router[p] = "remove"
  /\ pidFile' = NoFile
  /\ router' = [router EXCEPT ![p] = "exit"]
  /\ UNCHANGED <<remoteVars, build, mode, pc, pidData, sig, cronOn, exit>>
  /\ UNCHANGED runVars

\* the removal fails (the file is gone already, or the directory does not
\* allow it): "Warning: could not remove PID file" is logged
RouterRemoveFails(p) ==
  /\ Alive(p) /\ router[p] = "remove"
  /\ router' = [router EXCEPT ![p] = "exit"]
  /\ UNCHANGED <<remoteVars, build, pidFile, mode, pc, pidData, sig, cronOn, exit>>
  /\ UNCHANGED runVars

\* a shutdown branch without the os.Exit: the loop receives again
RouterExitReceives(p) ==
  /\ Alive(p) /\ router[p] = "exit"
  /\ router' = [router EXCEPT ![p] = "recv"]
  /\ UNCHANGED <<remoteVars, build, pidFile, mode, pc, pidData, sig, cronOn, exit>>
  /\ UNCHANGED runVars

\* os.Exit(0)
RouterExit(p) ==
  /\ Alive(p) /\ router[p] = "exit"
  /\ Exit(p, "Shutdown")
  /\ ServerDies
  /\ UNCHANGED <<keyFile, nkeys, auth, sessionVars>>
  /\ UNCHANGED <<store, connVars, auxVars, build, pidFile, mode>>

\* ------------------------------------------------ non-daemon mode of main()
IsOneshotAt(p, l) == mode[p] = "oneshot" /\ pc[p] = l

\* the pid a non-daemon invocation parses:
\* strconv.Atoi(strings.TrimSpace(string(pidData)))
OneshotParse(data) == Atoi(TrimSpace(data))

\* os.ReadFile(pidFile) and the parse; without a readable file go on to the
\* one-time backup
NRead(p) ==
  /\ IsOneshotAt(p, "nread")
  /\ IF pidFile.exists /\ pidFile.readable
     THEN /\ pidData' = [pidData EXCEPT ![p] =
                         IF OneshotParse(pidFile.data).ok THEN pidFile.data ELSE << >>]
          /\ Goto(p, IF OneshotParse(pidFile.data).ok THEN "nprobe" ELSE "nremove")
     ELSE /\ Goto(p, "nrun")
          /\ UNCHANGED pidData
  /\ UNCHANGED <<remoteVars, build, pidFile, mode>>
  /\ UNCHANGED procVars /\ UNCHANGED runVars

\* a probe whose answer is ignored: the trigger signal is tried whatever it says
NProbeSignals(p) ==
  /\ IsOneshotAt(p, "nprobe")
  /\ Goto(p, "nsignal")
  /\ UNCHANGED <<remoteVars, build, pidFile, mode, pidData>>
  /\ UNCHANGED procVars /\ UNCHANGED runVars

\* proc.Signal(syscall.Signal(0))
NProbe(p) ==
  /\ IsOneshotAt(p, "nprobe")
  /\ IF ProbeOk(OneshotParse(pidData[p]).val)
     THEN Goto(p, "nsignal") /\ UNCHANGED pidData
     ELSE Goto(p, "nremove") /\ pidData' = [pidData EXCEPT ![p] = << >>]
  /\ UNCHANGED <<remoteVars, build, pidFile, mode>>
  /\ UNCHANGED procVars /\ UNCHANGED runVars

\* a trigger without the return: the signal is sent and main() goes on to
\* remove the PID file and run the backup itself
NSignalNoReturn(p) ==
  /\ IsOneshotAt(p, "nsignal")
  /\ LET target == OneshotParse(pidData[p]).val IN
       IF Alive(target) THEN Notify(target, "SIGUSR1") ELSE UNCHANGED sig
  /\ Goto(p, "nremove")
  /\ pidData' = [pidData EXCEPT ![p] = << >>]
  /\ UNCHANGED <<remoteVars, build, pidFile, mode, cronOn, router, exit>>
  /\ UNCHANGED runVars

\* proc.Signal(syscall.SIGUSR1); return when it is delivered
NSignal(p) ==
  /\ IsOneshotAt(p, "nsignal")
  /\ LET target == OneshotParse(pidData[p]).val IN
       IF Alive(target)
       THEN /\ pc' = [pc EXCEPT ![p] = "exited"]
            /\ exit' = [exit EXCEPT ![p] = "Triggered"]
            /\ Notify(target, "SIGUSR1")
       ELSE /\ Goto(p, "nremove")
            /\ UNCHANGED <<sig, exit>>
  /\ pidData' = [pidData EXCEPT ![p] = << >>]
  /\ UNCHANGED <<remoteVars, build, pidFile, mode, cronOn, router>>
  /\ UNCHANGED runVars

\* os.Remove(pidFile): "Removing stale PID file"
NRemove(p) ==
  /\ IsOneshotAt(p, "nremove")
  /\ pidFile' = NoFile
  /\ Goto(p, "nrun")
  /\ UNCHANGED <<remoteVars, build, mode, pidData>>
  /\ UNCHANGED procVars /\ UNCHANGED runVars

\* "No daemon running, performing one-time backup...": runBackup
NRun(p) ==
  /\ IsOneshotAt(p, "nrun")
  /\ CallRun(p, MainTask)
  /\ Goto(p, "nwait")
  /\ UNCHANGED <<remoteVars, build, pidFile, mode, pidData>>
  /\ UNCHANGED procVars

\* runBackup returns and main() ends
NDone(p) ==
  /\ IsOneshotAt(p, "nwait") /\ rpc[p][MainTask] = "ret"
  /\ Exit(p, "OneTimeBackup")
  /\ UNCHANGED <<remoteVars, build, pidFile, mode>>

\* ------------------------------------------- time.Time and time.Duration
\* an instant or a duration: seconds and nanoseconds, 0 <= nsec < 10^9
Nano == 1000000000
Time(sec, nsec) == [sec |-> sec, nsec |-> nsec]

\* Time.Sub: the duration from u to t
Sub(t, u) ==
  IF t.nsec >= u.nsec THEN Time(t.sec - u.sec, t.nsec - u.nsec)
  ELSE Time(t.sec - u.sec - 1, t.nsec + Nano - u.nsec)

\* d > e for durations
Longer(d, e) == d.sec > e.sec \/ (d.sec = e.sec /\ d.nsec > e.nsec)

\* time.Hour
Hour == Time(3600, 0)

\* time.Now() as time.Since reads it in ConnectToHost
Now == Time(20000, 0)

\* time.Since
Since(t) == Sub(Now, t)

\* a staleness test that also rejects a snapshot aged exactly one hour
TooOldFromTheHour(ts) == ~Longer(Hour, Since(ts))

\* time.Since(ipInfo.Timestamp) > time.Hour
TooOld(ts) == Longer(Since(ts), Hour)

\* ---------------------------------------------- the published snapshot
Ifaces == {"eth0", "wlan0"}
Addrs  == 1 .. MaxAddrs             \* the addresses 10.0.0.1, 10.0.0.2, ...

\* the address lists an interface may have: the runs i, i+1, .., j
AddrLists == {[k \in 1..(j - i + 1) |-> i + k - 1] : i \in Addrs, j \in Addrs} \ {<< >>}

\* the Interfaces maps CollectAndStoreIPs builds: an interface is listed only
\* with an address; one address may be bound to two interfaces
IfaceMaps == UNION {[S -> AddrLists] : S \in SUBSET Ifaces}

\* the ages of the published snapshot when the operator connects
Ages == {Time(1, 0), Time(3599, Nano - 1), Time(3600, 0), Time(3600, 1), Time(7200, 0)}

\* getHostname: $HOSTNAME, else os.Hostname(), else "unknown-host"
Hosts == {"web1", "unknown-host"}

\* the IPInfo struct
IPInfo(h, ts, m) == [kind |-> "snapshot", host |-> h, ts |-> ts, ifs |-> m]

Snapshots == {IPInfo("web1", Sub(Now, a), m) : a \in Ages, m \in IfaceMaps}

\* the interface names in the order encoding/json writes the keys of a map
IfaceOrder == <<"eth0", "wlan0">>

\* json.MarshalIndent of an IPInfo: the object's members in the order of the
\* struct, the map as its key/value members sorted by key; the timestamp is
\* written with its nanoseconds (RFC 3339)
Marshal(info) ==
  LET names == SelectSeq(IfaceOrder, LAMBDA i : i \in DOMAIN info.ifs)
  IN [kind |-> "json", host |-> info.host, ts |-> info.ts,
      ifs |-> [k \in 1..Len(names) |-> <<names[k], info.ifs[names[k]]>>]]

\* json.Unmarshal into an IPInfo: a map of the members of "interfaces", a
\* repeated key taking its last value
Unmarshal(blob) ==
  LET members == blob.ifs
      names == {members[k][1] : k \in 1..Len(members)}
      last(i) == CHOOSE k \in 1..Len(members) :
                   /\ members[k][1] = i
                   /\ \A j \in 1..Len(members) : members[j][1] = i => j <= k
  IN IPInfo(blob.host, blob.ts, [i \in names |-> members[last(i)][2]])

\* what the store may hold when the operator connects: ips.json is missing,
\* is not JSON, or is a published snapshot; priv.key is missing, is not a
\* key, or is the key of the daemon
StoredIps  == {NoBlob, Garbage} \cup {Marshal(s) : s \in Snapshots}
StoredKeys == {NoKey, BadKey, Key(1)}

\* ------------------------------------------------ utils.ConnectToHost
\* the candidates of interface i, in the order of its list
Entries(m, i) == [k \in 1..Len(m[i]) |-> [if |-> i, ix |-> k, addr |-> m[i][k]]]

\* the ways an established session ends: session.Wait returns nil, an
\* *ssh.ExitError (non-zero status) or an *ssh.ExitMissingError (dropped)
SessionEnds == {"clean", "exitStatus", "dropped"}

\* ConnectToHost returns
Return(k, a, e) == result' = Result(k, a, e) /\ cpc' = "done"

\* the statement that follows each of the three downloads and checks, in an
\* order where the key is downloaded before the snapshot's age is looked at
StepAfterKeyFirst(l) ==
  CASE l = "getips" -> "getkey"
    [] l = "getkey" -> "fresh"
    [] l = "fresh"  -> "next"

\* the statement that follows each of the three downloads and checks
StepAfter(l) ==
  CASE l = "getips" -> "fresh"
    [] l = "fresh"  -> "getkey"
    [] l = "getkey" -> "next"

\* the operator runs "--connect <name>": main calls utils.ConnectToHost
CStart ==
  /\ cpc = "off"
  /\ cpc' = "b2"
  /\ UNCHANGED <<ipInfo, keyLoaded, todo, ips, ip, lastErr, result,
                 probes, ndials, sessions>>
  /\ UNCHANGED <<store, homeVars, sshdVars>>

\* b2.New
CB2New ==
  /\ cpc = "b2"
  /\ \E ok \in BOOLEAN :
       IF ok THEN cpc' = "getips" /\ UNCHANGED result
       ELSE Return("StoreError", 0, NoErr)
  /\ UNCHANGED <<ipInfo, keyLoaded, todo, ips, ip, lastErr, probes, ndials, sessions>>
  /\ UNCHANGED <<store, homeVars, sshdVars>>

\* st.GetBlob("ips.json") and json.Unmarshal
CGetIps ==
  /\ cpc = "getips"
  /\ IF store.ips.kind # "json"
     THEN /\ Return(IF store.ips.kind = "none" THEN "SnapshotError" ELSE "ParseError",
                    0, NoErr)
          /\ UNCHANGED <<ipInfo, todo>>
     ELSE /\ ipInfo' = Unmarshal(store.ips)
          /\ todo' = DOMAIN Unmarshal(store.ips).ifs
          /\ cpc' = StepAfter("getips")
          /\ UNCHANGED result
  /\ UNCHANGED <<keyLoaded, ips, ip, lastErr, probes, ndials, sessions>>
  /\ UNCHANGED <<store, homeVars, sshdVars>>

\* if time.Since(ipInfo.Timestamp) > time.Hour
CFresh ==
  /\ cpc = "fresh"
  /\ IF TooOld(ipInfo.ts)
     THEN Return("StaleSnapshot", 0, NoErr)
     ELSE cpc' = StepAfter("fresh") /\ UNCHANGED result
  /\ UNCHANGED <<ipInfo, keyLoaded, todo, ips, ip, lastErr, probes, ndials, sessions>>
  /\ UNCHANGED <<store, homeVars, sshdVars>>

\* st.GetBlob("priv.key") and ssh.ParsePrivateKey
CGetKey ==
  /\ cpc = "getkey"
  /\ IF store.key \in {NoKey, BadKey}
     THEN /\ Return(IF store.key = NoKey THEN "CredentialError" ELSE "KeyParseError",
                    0, NoErr)
          /\ UNCHANGED keyLoaded
     ELSE /\ keyLoaded' = TRUE
          /\ cpc' = StepAfter("getkey")
          /\ UNCHANGED result
  /\ UNCHANGED <<ipInfo, todo, ips, ip, lastErr, probes, ndials, sessions>>
  /\ UNCHANGED <<store, homeVars, sshdVars>>

\* the headers of the two range loops, and the returns after them: the range
\* over the map takes the interfaces in any order, each once
CNext ==
  /\ cpc = "next"
  /\ IF ips # << >>
     THEN /\ ip' = Head(ips) /\ ips' = Tail(ips)
          /\ cpc' = "probe"
          /\ UNCHANGED <<todo, result>>
     ELSE IF todo # {}
     THEN \E i \in todo :
            /\ todo' = todo \ {i}
            /\ ip' = Head(Entries(ipInfo.ifs, i))
            /\ ips' = Tail(Entries(ipInfo.ifs, i))
            /\ cpc' = "probe"
            /\ UNCHANGED result
     ELSE /\ Return("NoReachableHost", 0, lastErr)
          /\ UNCHANGED <<todo, ips, ip>>
  /\ UNCHANGED <<ipInfo, keyLoaded, lastErr, probes, ndials, sessions>>
  /\ UNCHANGED <<store, homeVars, sshdVars>>

\* isPortOpen(ip, 41334)
CProbe ==
  /\ cpc = "probe"
  /\ probes' = Append(probes, <<ip.if, ip.ix>>)
  /\ \E open \in BOOLEAN :
       IF open THEN cpc' = "dial" /\ UNCHANGED lastErr
       ELSE cpc' = "next" /\ lastErr' = <<"port", ip.addr>>
  /\ UNCHANGED <<ipInfo, keyLoaded, todo, ips, ip, result, ndials, sessions>>
  /\ UNCHANGED <<store, homeVars, sshdVars>>

\* trySSHConnection: ssh.Dial, the authenticated handshake
CDial ==
  /\ cpc = "dial"
  /\ ndials' = ndials + 1
  /\ \E ok \in BOOLEAN :
       IF ok THEN cpc' = "session" /\ UNCHANGED lastErr
       ELSE cpc' = "next" /\ lastErr' = <<"ssh", ip.addr>>
  /\ UNCHANGED <<ipInfo, keyLoaded, todo, ips, ip, result, probes, sessions>>
  /\ UNCHANGED <<store, homeVars, sshdVars>>

\* trySSHConnection: client.NewSession, session.RequestPty, session.Shell
CSession ==
  /\ cpc = "session"
  /\ \E ok \in BOOLEAN :
       IF ok THEN /\ cpc' = "wait"
                  /\ sessions' = sessions + 1
                  /\ UNCHANGED lastErr
       ELSE /\ cpc' = "next"
            /\ lastErr' = <<"ssh", ip.addr>>
            /\ UNCHANGED sessions
  /\ UNCHANGED <<ipInfo, keyLoaded, todo, ips, ip, result, probes, ndials>>
  /\ UNCHANGED <<store, homeVars, sshdVars>>

\* trySSHConnection: return session.Wait(), and what the loop makes of it
CWait ==
  /\ cpc = "wait"
  /\ \E end \in SessionEnds :
       IF end = "clean"
       THEN Return("ok", ip.addr, NoErr) /\ UNCHANGED lastErr
       ELSE cpc' = "next" /\ lastErr' = <<"ssh", ip.addr>> /\ UNCHANGED result
  /\ UNCHANGED <<ipInfo, keyLoaded, todo, ips, ip, probes, ndials, sessions>>
  /\ UNCHANGED <<store, homeVars, sshdVars>>

\* ------------------------------------------- sshd: the server's credential
\* ssh.ParsePrivateKey(...).PublicKey(): generateHostKey makes RSA keys
PublicKey(priv) == <<"ssh-rsa", priv[2]>>

\* the public keys a connecting party may offer, and the user names
Offered == {<<"ssh-rsa", n>> : n \in 1..(MaxKeys + 1)} \cup {<<"ssh-ed25519", 1>>}
Users   == {"root", "guest"}

\* a comparison of the key types only
AuthorizedByType(key) ==
  keyFile[1] = "key" /\ key[1] = PublicKey(keyFile)[1]

\* handlePublicKey: priv.key is read and parsed at every attempt;
\* bytes.Equal(key.Marshal(), privKey.PublicKey().Marshal())
Authorized(key) ==
  keyFile[1] = "key" /\ key = PublicKey(keyFile)

\* NewServer up to config.AddHostKey: loadOrGenerateHostKey keeps a key that
\* parses, else generates one and saves it
SLoadHostKey ==
  /\ srv = "off"
  /\ IF keyFile[1] = "key"
     THEN /\ hostKey' = keyFile /\ srv' = "upload"
          /\ UNCHANGED <<keyFile, nkeys>>
     ELSE /\ nkeys < MaxKeys
          /\ nkeys' = nkeys + 1
          /\ \E saved \in BOOLEAN :
               IF saved
               THEN /\ keyFile' = Key(nkeys + 1) /\ hostKey' = Key(nkeys + 1)
                    /\ srv' = "upload"
               ELSE srv' = "failed" /\ UNCHANGED <<keyFile, hostKey>>
  /\ UNCHANGED <<conn, auth, store>>
  /\ UNCHANGED <<sessionVars, connVars, homeVars>>

\* uploadPrivateKey: generateHostKey, os.WriteFile(".avolut/priv.key")
SNewKey ==
  /\ srv = "upload" /\ nkeys < MaxKeys
  /\ nkeys' = nkeys + 1
  /\ \E saved \in BOOLEAN :
       IF saved THEN keyFile' = Key(nkeys + 1) /\ srv' = "put"
       ELSE srv' = "failed" /\ UNCHANGED keyFile
  /\ UNCHANGED <<hostKey, conn, auth, store>>
  /\ UNCHANGED <<sessionVars, connVars, homeVars>>

\* uploadPrivateKey: b2.New and st.PutBlob("priv.key") of the key just saved
SPutKey ==
  /\ srv = "put"
  /\ \E ok \in BOOLEAN :
       IF ok THEN store' = [store EXCEPT !.key = Key(nkeys)] /\ srv' = "start"
       ELSE srv' = "failed" /\ UNCHANGED store
  /\ UNCHANGED <<keyFile, hostKey, nkeys, conn, auth>>
  /\ UNCHANGED <<sessionVars, connVars, homeVars>>

\* Server.Start: net.Listen, go s.acceptConnections()
SStart ==
  /\ srv = "start"
  /\ \E ok \in BOOLEAN : srv' = IF ok THEN "listening" ELSE "failed"
  /\ UNCHANGED <<keyFile, hostKey, nkeys, conn, auth, store>>
  /\ UNCHANGED <<sessionVars, connVars, homeVars>>

\* the daemon process ends (os.Exit at shutdown); a later daemon may start
SExit ==
  /\ srv \in {"listening", "failed"}
  /\ ServerDies
  /\ UNCHANGED <<keyFile, nkeys, auth, store>>
  /\ UNCHANGED <<sessionVars, connVars, homeVars>>

\* an accept loop that calls s.handleConnection itself: it is back at Accept
\* when the handler of the connection before has returned
SConnectInline ==
  /\ srv = "listening" /\ conn = "none" /\ peer = "none"
  /\ conn' = "auth"
  /\ UNCHANGED <<keyFile, hostKey, nkeys, srv, auth, store>>
  /\ UNCHANGED <<sessionVars, connVars, homeVars>>

\* acceptConnections: Accept, go s.handleConnection, ssh.NewServerConn begins
SConnect ==
  /\ srv = "listening" /\ conn = "none"
  /\ conn' = "auth"
  /\ UNCHANGED <<keyFile, hostKey, nkeys, srv, auth, store>>
  /\ UNCHANGED <<sessionVars, connVars, homeVars>>

\* what os.ReadFile and ssh.ParsePrivateKey of handlePublicKey can meet:
\* no file, a file that cannot be read, bytes that do not parse, or a key
Unreadable == <<"unreadable", 0>>
CredFiles  == {NoKey, Unreadable, BadKey} \cup {Key(n) : n \in 1..MaxKeys}

\* somebody on the host removes, protects, damages or replaces
\* .avolut/priv.key while the server runs
FileChanges(f) ==
  /\ srv = "listening" /\ f \in CredFiles /\ f # keyFile
  /\ keyFile' = f
  /\ UNCHANGED <<hostKey, nkeys, srv, conn, auth, store>>
  /\ UNCHANGED <<sessionVars, connVars, homeVars>>

\* a callback that remembers the key it accepted last
SAuthRemembers(key, user) ==
  /\ conn = "auth"
  /\ LET ok == Authorized(key) \/ (auth.ok /\ auth.key = key) IN
       /\ auth' = [key |-> key, user |-> user, ok |-> ok]
       /\ conn' = IF ok THEN "open" ELSE "auth"
  /\ UNCHANGED <<keyFile, hostKey, nkeys, srv, store>>
  /\ UNCHANGED <<sessionVars, connVars, homeVars>>

\* ssh.NewServerConn calls the PublicKeyCallback for a key the client offers
SAuth(key, user) ==
  /\ conn = "auth"
  /\ auth' = [key |-> key, user |-> user, ok |-> Authorized(key)]
  /\ conn' = IF Authorized(key) THEN "open" ELSE "auth"
  /\ UNCHANGED <<keyFile, hostKey, nkeys, srv, store>>
  /\ UNCHANGED <<sessionVars, connVars, homeVars>>

\* the client goes away: NewServerConn fails or the range over chans ends
SDisconnect ==
  /\ conn \in {"auth", "open"} /\ ch = "none"
  /\ conn' = "none"
  /\ UNCHANGED <<keyFile, hostKey, nkeys, srv, auth, store>>
  /\ UNCHANGED <<sessionVars, connVars, homeVars>>

\* ------------------------------------------- sshd: another client's handler
PeerStep(new) ==
  /\ peer' = new
  /\ UNCHANGED <<pubInfo, run, rival, svc, bucket, store, localVars, connVars, sshdVars>>

\* acceptConnections: Accept and go s.handleConnection for another client,
\* whose ssh.NewServerConn begins
PConnect == srv = "listening" /\ peer = "none" /\ PeerStep("handshake")

\* handleConnection of the other client: ssh.NewServerConn returns an error
\* (no key it offers is accepted), or the connection, on which a shell
\* session is then held
PHandshake == peer = "handshake" /\ \E ok \in BOOLEAN :
                PeerStep(IF ok THEN "session" ELSE "failed")

\* handleConnection of the other client returns: after the failed handshake,
\* or when the client has gone away
PLeave == peer # "none" /\ PeerStep("none")

\* ------------------------------------- part_000: the daemon's server, publish
\* sshd.NewServer and sshServer.Start run on the goroutine of main()
DServerStep(p) ==
  /\ IsDaemonAt(p, "sshd")
  /\ SLoadHostKey \/ SNewKey \/ SPutKey \/ SStart

\* a start that treats a failure of NewServer or of Start as fatal
DSshdFatal(p) ==
  /\ IsDaemonAt(p, "sshd") /\ srv \in {"listening", "failed"}
  /\ IF srv = "failed" THEN Exit(p, "ServerError")
     ELSE /\ Goto(p, "publish")
          /\ UNCHANGED <<pidData>> /\ UNCHANGED procVars /\ UNCHANGED runVars
  /\ UNCHANGED <<remoteVars, build, pidFile, mode>>

\* NewServer or Start has returned: a failure is logged, main() goes on
DSshd(p) ==
  /\ IsDaemonAt(p, "sshd") /\ srv \in {"listening", "failed"}
  /\ Goto(p, "publish")
  /\ UNCHANGED <<remoteVars, build, pidFile, mode, pidData>>
  /\ UNCHANGED procVars /\ UNCHANGED runVars

\* time.Now() when daemon p collects its addresses: a later start publishes
\* later, and all of them shortly before the operator connects
PublishTime(p) == Time(Now.sec - 2 * (FirstPid + MaxProcs - p), 0)

\* the ways CollectAndStoreIPs ends: net.Interfaces fails, the temporary
\* file cannot be written or read, b2.New fails, PutBlob fails, or nil
PublishEnds == {"ifacesError", "tmpFileError", "storeError", "putError", "ok"}

\* a store that adds the members of the upload to the object it holds
PutMerging(old, info) ==
  IF old.kind # "json" THEN Marshal(info)
  ELSE LET was == Unmarshal(old).ifs
       IN Marshal(IPInfo(info.host, info.ts,
            [i \in DOMAIN was \cup DOMAIN info.ifs |->
               IF i \in DOMAIN info.ifs THEN info.ifs[i] ELSE was[i]]))

\* st.PutBlob("ips.json") of the marshalled ipInfo: the object is replaced
Put(old, info) == Marshal(info)

\* utils.CollectAndStoreIPs on a host named h whose interfaces have the
\* addresses m: the upload replaces ips.json; a failure is logged, main()
\* goes on
DPublish(p, h, m) ==
  /\ IsDaemonAt(p, "publish")
  /\ \E end \in PublishEnds :
       IF end = "ok"
       THEN /\ pubInfo' = IPInfo(h, PublishTime(p), m)
            /\ store' = [store EXCEPT !.ips = Put(@, IPInfo(h, PublishTime(p), m))]
       ELSE UNCHANGED <<pubInfo, store>>
  /\ Goto(p, "go")
  /\ UNCHANGED <<peer, run, rival, svc, bucket, connVars, sshdVars>>
  /\ UNCHANGED <<build, pidFile, mode, pidData>>
  /\ UNCHANGED procVars /\ UNCHANGED runVars

\* ------------------------- part_000: a second daemon of the same directory
\* the daemon with the next pid, when it has passed the test of the PID file
\* while the first daemon runs
TheRival == FirstPid + 1

RivalStep(new) ==
  /\ rival' = new
  /\ UNCHANGED <<hostKey, srv, conn, auth, sessionVars>>
  /\ UNCHANGED <<peer, pubInfo, run, svc, bucket, localVars, connVars>>

\* NewServer of the second daemon while the server of the first listens:
\* loadOrGenerateHostKey finds the priv.key of the first, which parses
\* (its other branch is SLoadHostKey's)
RLoadHostKey ==
  /\ rival.at = "off" /\ srv = "listening" /\ keyFile[1] = "key"
  /\ RivalStep([rival EXCEPT !.at = "upload"])
  /\ UNCHANGED <<keyFile, nkeys, store>>

\* uploadPrivateKey of the second daemon: generateHostKey,
\* os.WriteFile(".avolut/priv.key")
RNewKey ==
  /\ rival.at = "upload" /\ nkeys < MaxKeys
  /\ nkeys' = nkeys + 1
  /\ \E saved \in BOOLEAN :
       IF saved
       THEN /\ keyFile' = Key(nkeys + 1)
            /\ RivalStep([rival EXCEPT !.at = "put", !.key = Key(nkeys + 1)])
       ELSE /\ RivalStep([rival EXCEPT !.at = "failed"])
            /\ UNCHANGED keyFile
  /\ UNCHANGED store

\* uploadPrivateKey of the second daemon: b2.New and st.PutBlob("priv.key")
RPutKey ==
  /\ rival.at = "put"
  /\ \E ok \in BOOLEAN :
       IF ok THEN /\ store' = [store EXCEPT !.key = rival.key]
                  /\ RivalStep([rival EXCEPT !.at = "start"])
       ELSE /\ RivalStep([rival EXCEPT !.at = "failed"])
            /\ UNCHANGED store
  /\ UNCHANGED <<keyFile, nkeys>>

\* Server.Start of the second daemon: net.Listen fails while the port is
\* bound by the first
RStart ==
  /\ rival.at = "start"
  /\ \E ok \in IF srv = "listening" THEN {FALSE} ELSE BOOLEAN :
       RivalStep([rival EXCEPT !.at = IF ok THEN "listening" ELSE "failed"])
  /\ UNCHANGED <<keyFile, nkeys, store>>

DRivalStep(q) ==
  /\ q = TheRival /\ IsDaemonAt(q, "sshd")
  /\ RLoadHostKey \/ RNewKey \/ RPutKey \/ RStart

\* NewServer or Start of the second daemon has returned: main() goes on
DRivalSshd(q) ==
  /\ q = TheRival /\ IsDaemonAt(q, "sshd") /\ rival.at \in {"listening", "failed"}
  /\ Goto(q, "publish")
  /\ UNCHANGED <<remoteVars, build, pidFile, mode, pidData>>
  /\ UNCHANGED procVars /\ UNCHANGED runVars

\* ------------------------------------------- sshd: Server.Start and Stop
SvcStep(new) ==
  /\ svc' = new
  /\ UNCHANGED <<peer, pubInfo, run, rival, bucket, store, localVars, connVars, sshdVars>>

\* a call of Start or Stop returns
Returns(s, op, ok) ==
  [s EXCEPT !.call = "none",
            !.last = [op |-> op, ok |-> ok, tick |-> 1 - s.last.tick],
            !.lastOk = IF ok THEN op ELSE @]

\* NewServer(port, hostKeyDir, isDaemon, name) has returned the Server
ServerNew(d) ==
  /\ ~svc.made
  /\ SvcStep([svc EXCEPT !.made = TRUE, !.isDaemon = d])

\* Start up to "s.listener = listener", under the mutex: the two tests,
\* net.Listen (which may find the port bound), the assignment
ServerStart ==
  /\ svc.made /\ svc.call = "none"
  /\ IF ~svc.isDaemon \/ svc.running
     THEN SvcStep(Returns(svc, "start", FALSE))
     ELSE \E ok \in IF svc.nlisten < MaxStarts /\ svc.open = {} THEN BOOLEAN ELSE {FALSE} :
            IF ok
            THEN SvcStep([svc EXCEPT !.nlisten = @ + 1, !.listener = svc.nlisten + 1,
                                     !.open = @ \cup {svc.nlisten + 1},
                                     !.call = "run"])
            ELSE SvcStep(Returns(svc, "start", FALSE))

\* Start: s.running = true
ServerStartRun ==
  /\ svc.call = "run"
  /\ SvcStep([svc EXCEPT !.running = TRUE, !.call = "go"])

\* Start: go s.acceptConnections(); return nil
ServerStartGo ==
  /\ svc.call = "go"
  /\ SvcStep(Returns([svc EXCEPT !.loops[svc.nlisten] = [pc |-> "read", on |-> 0]],
                      "start", TRUE))

\* a Stop that clears the flag before it closes the listener
ServerStopClearsFirst ==
  /\ svc.made /\ svc.call = "none"
  /\ IF ~svc.running
     THEN SvcStep(Returns(svc, "stop", TRUE))
     ELSE \E ok \in BOOLEAN :
            IF ok
            THEN SvcStep([svc EXCEPT !.running = FALSE, !.open = @ \ {svc.listener},
                                     !.call = "clear"])
            ELSE SvcStep(Returns([svc EXCEPT !.running = FALSE], "stop", FALSE))

\* Stop up to s.listener.Close(), under the mutex: nothing to do when the
\* server is not running; an error of Close is returned
ServerStop ==
  /\ svc.made /\ svc.call = "none"
  /\ IF ~svc.running
     THEN SvcStep(Returns(svc, "stop", TRUE))
     ELSE \E ok \in BOOLEAN :
            IF ok
            THEN SvcStep([svc EXCEPT !.open = @ \ {svc.listener}, !.call = "clear"])
            ELSE SvcStep(Returns(svc, "stop", FALSE))

\* Stop: s.running = false; return nil
ServerStopEnd ==
  /\ svc.call = "clear"
  /\ SvcStep(Returns([svc EXCEPT !.running = FALSE], "stop", TRUE))

\* acceptConnections of loop k: s.listener is read (without the mutex) and
\* its Accept is called
AcceptCall(k) ==
  /\ svc.loops[k].pc = "read"
  /\ SvcStep([svc EXCEPT !.loops[k] = [pc |-> "accept", on |-> svc.listener]])

\* Accept returns: a connection of the listener while it is open (go
\* s.handleConnection, next iteration), an error once it is closed
AcceptReturns(k) ==
  /\ svc.loops[k].pc = "accept"
  /\ IF svc.loops[k].on \in svc.open
     THEN SvcStep([svc EXCEPT !.loops[k].pc = "read", !.by = k])
     ELSE SvcStep([svc EXCEPT !.loops[k].pc = "check"])

\* "if !s.running { return }", read without the mutex; else the error is
\* logged and the loop continues
AcceptCheck(k) ==
  /\ svc.loops[k].pc = "check"
  /\ SvcStep([svc EXCEPT !.loops[k].pc = IF svc.running THEN "read" ELSE "done"])

\* ----------------------------------- the names of the rendezvous objects
\* job names (config.Name, the argument of --connect): strings of letters
\* and slashes
Chars == {"a", "/"}
Names == UNION {[1..n -> Chars] : n \in 1..MaxName}

\* strings.HasSuffix(s, "/")
HasSlash(s) == Len(s) > 0 /\ s[Len(s)] = "/"

\* the object a b2 storage with Prefix prefix keeps blob id in
Object(prefix, id) == prefix \o <<id>>

\* CollectAndStoreIPs: the prefix gets a "/" unless it ends in one
SnapshotObject(name) ==
  Object(IF HasSlash(name) THEN name ELSE name \o <<"/">>, "ips.json")

\* uploadPrivateKey: prefix := name + "/"
CredentialObject(name) == Object(name \o <<"/">>, "priv.key")

\* ConnectToHost: the prefix gets a "/" unless it ends in one; both blobs
\* are read under it
ClientObject(name, id) ==
  Object(IF HasSlash(name) THEN name ELSE name \o <<"/">>, id)

BucketStep(new) ==
  /\ bucket' = new
  /\ UNCHANGED <<peer, pubInfo, run, rival, svc, store, localVars, connVars, sshdVars>>

\* backup.yaml of a job is written: its name
BName(j, n) ==
  /\ bucket.name[j] = << >> /\ n \in Names
  /\ BucketStep([bucket EXCEPT !.name[j] = n])

\* the upload of an object by the daemon of job j
Upload(j, id, obj) == [by |-> j, id |-> id, obj |-> obj]

\* CollectAndStoreIPs(ctx, config.Name) of the daemon of job j: PutBlob
BPutIps(j) ==
  /\ bucket.name[j] # << >>
  /\ BucketStep([bucket EXCEPT
       !.objs = @ \cup {Upload(j, "ips.json", SnapshotObject(bucket.name[j]))}])

\* uploadPrivateKey(config.Name) of the daemon of job j: PutBlob
BPutKey(j) ==
  /\ bucket.name[j] # << >>
  /\ BucketStep([bucket EXCEPT
       !.objs = @ \cup {Upload(j, "priv.key", CredentialObject(bucket.name[j]))}])

\* ConnectToHost(ctx, name) with the name of job j: the two GetBlob
BGet(j) ==
  /\ bucket.name[j] # << >>
  /\ LET found(id) == \E u \in bucket.objs :
                         u.obj = ClientObject(bucket.name[j], id)
     IN BucketStep([bucket EXCEPT
          !.got = [for |-> j, ips |-> found("ips.json"),
                   key |-> found("ips.json") /\ found("priv.key")]])

\* ---------------------------------------------- sshd: channels and shells
ChannelTypes == {"session", "direct-tcpip"}
RequestTypes == {"shell", "pty-req", "env"}

\* the channel requests a client may send: with or without want_reply, and
\* (for any type) with or without a payload
Requests == [type : RequestTypes, want : BOOLEAN, empty : BOOLEAN]

\* what the switch of handleChannelRequests answers; req.Reply sends
\* nothing when the request did not ask for a reply
Reply(r) ==
  CASE r.type = "shell"   -> IF r.empty /\ r.want THEN "ok" ELSE "none"
    [] r.type = "pty-req" -> IF r.want THEN "ok" ELSE "none"
    [] OTHER              -> IF r.want THEN "fail" ELSE "none"

\* handleConnection: one newChannel of the range over chans
SOpenChannel(type) ==
  /\ conn = "open" /\ (type = "session" => ch = "none")
  /\ IF type = "session"
     THEN opened' = [type |-> type, reply |-> "accept"] /\ ch' = "open"
     ELSE opened' = [type |-> type, reply |-> "reject"] /\ UNCHANGED ch
  /\ UNCHANGED <<lastReq, sh, store>>
  /\ UNCHANGED <<credVars, connVars, homeVars>>

\* the handleShell goroutines not yet started
FreeShells == {s \in Shells : sh[s].pc = "none"}

\* handleChannelRequests: one request of the range over requests
SRequest(r) ==
  /\ ch = "open"
  /\ lastReq' = [type |-> r.type, want |-> r.want, empty |-> r.empty,
                 reply |-> Reply(r)]
  /\ IF r.type = "shell"
     THEN /\ FreeShells # {}
          /\ LET s == CHOOSE x \in FreeShells : \A y \in FreeShells : x <= y
             IN sh' = [sh EXCEPT ![s].pc = "open"]
     ELSE UNCHANGED sh
  /\ UNCHANGED <<opened, ch, store>>
  /\ UNCHANGED <<credVars, connVars, homeVars>>

\* handleChannelRequests: the range ends when the client has closed the
\* channel; defer channel.Close()
SRequestsEnd ==
  /\ ch = "eof"
  /\ ch' = "closed"
  /\ UNCHANGED <<opened, lastReq, sh, store>>
  /\ UNCHANGED <<credVars, connVars, homeVars>>

\* the client closes the channel, or its connection drops
ClientClose ==
  /\ ch = "open"
  /\ ch' = "eof"
  /\ UNCHANGED <<opened, lastReq, sh, store>>
  /\ UNCHANGED <<credVars, connVars, homeVars>>

ShellStep(s, new) ==
  /\ sh' = [sh EXCEPT ![s] = new]
  /\ UNCHANGED <<opened, ch, lastReq, store>>
  /\ UNCHANGED <<credVars, connVars, homeVars>>

\* handleShell: pty.Open(); on an error it returns
HOpen(s) ==
  /\ sh[s].pc = "open"
  /\ \E ok \in BOOLEAN :
       ShellStep(s, IF ok THEN [sh[s] EXCEPT !.pc = "start", !.pty = "open"]
                    ELSE [sh[s] EXCEPT !.pc = "done"])

\* handleShell: cmd.Start(); on an error it returns and the deferred
\* tty.Close() and pty.Close() run; else the copy goroutine is started
HStart(s) ==
  /\ sh[s].pc = "start"
  /\ \E ok \in BOOLEAN :
       ShellStep(s, IF ok THEN [sh[s] EXCEPT !.pc = "copy", !.proc = "running",
                                            !.cp = "copy"]
                    ELSE [sh[s] EXCEPT !.pc = "done", !.pty = "closed"])

\* handleShell: io.Copy(pty, channel) returns when the read of the channel
\* ends
HCopy(s) ==
  /\ sh[s].pc = "copy" /\ ch \in {"eof", "closed"}
  /\ ShellStep(s, [sh[s] EXCEPT !.pc = "wait"])

\* handleShell: cmd.Wait() returns when the shell has exited; then the
\* deferred tty.Close() and pty.Close() run
HWait(s) ==
  /\ sh[s].pc = "wait" /\ sh[s].proc = "exited"
  /\ ShellStep(s, [sh[s] EXCEPT !.pc = "done", !.pty = "closed"])

\* the goroutine of handleShell: io.Copy(channel, pty) returns when the read
\* of the master fails. While handleShell holds the slave open the exit of
\* the shell does not end the read; the close of the master does.
GCopy(s) ==
  /\ sh[s].cp = "copy" /\ sh[s].pty = "closed"
  /\ ShellStep(s, [sh[s] EXCEPT !.cp = "close"])

\* the goroutine of handleShell: the shell writes to the terminal after the
\* channel is closed, and io.Copy(channel, pty) returns with the write error
GCopyWriteFails(s) ==
  /\ sh[s].cp = "copy" /\ sh[s].pty = "open" /\ sh[s].proc = "running"
  /\ ch \in {"eof", "closed"}
  /\ ShellStep(s, [sh[s] EXCEPT !.cp = "close"])

\* the goroutine of handleShell: channel.Close()
GClose(s) ==
  /\ sh[s].cp = "close"
  /\ sh' = [sh EXCEPT ![s].cp = "done"]
  /\ ch' = "closed"
  /\ UNCHANGED <<opened, lastReq, store>>
  /\ UNCHANGED <<credVars, connVars, homeVars>>

\* the shell process exits: the user typed exit
ShellExit(s) ==
  /\ sh[s].proc = "running"
  /\ ShellStep(s, [sh[s] EXCEPT !.proc = "exited"])

\* ------------------------------------------------------- specification
\* the steps of process p, apart from the firing of its cron schedule
ProcNext(p) ==
  \/ DStat(p) \/ DRead(p) \/ DProbe(p) \/ DRemove(p) \/ DWrite(p)
  \/ DLoadConfig(p) \/ DCron(p) \/ DGo(p)
  \/ NRead(p) \/ NProbe(p) \/ NSignal(p) \/ NRemove(p) \/ NRun(p) \/ NDone(p)
  \/ RouterRecv(p) \/ RouterDone(p)
  \/ RouterStop(p) \/ RouterRemove(p) \/ RouterExit(p)
  \/ \E s \in DirSignals : EnvSignal(p, s)
  \/ \E t \in Tasks : RTryLock(p, t) \/ RBody(p, t) \/ RUnlock(p, t)

\* the working directory: any invocations of the program, in an interval in
\* which no cron schedule comes due
Next ==
  \/ \E m \in {"daemon", "oneshot"} : Launch(m)
  \/ \E p \in Procs : ProcNext(p)

\* one daemon, started alone in a fresh working directory, whose schedule
\* comes due at any time
TheDaemon == FirstPid

DaemonNext ==
  \/ mode[TheDaemon] = "none" /\ Launch("daemon")
  \/ DStat(TheDaemon) \/ DWrite(TheDaemon) \/ DLoadConfig(TheDaemon)
  \/ DCron(TheDaemon) \/ DGo(TheDaemon)
  \/ RouterRecv(TheDaemon) \/ RouterDone(TheDaemon)
  \/ RouterStop(TheDaemon) \/ RouterRemove(TheDaemon) \/ RouterExit(TheDaemon)
  \/ \E s \in Signals : EnvSignal(TheDaemon, s)
  \/ \E t \in CronTasks : CronFire(TheDaemon, t) \/ CronDone(TheDaemon, t)
  \/ \E t \in Tasks :
       RTryLock(TheDaemon, t) \/ RBody(TheDaemon, t) \/ RUnlock(TheDaemon, t)

\* started in a fresh working directory
Spec == Init /\ [][Next]_vars

\* started in a working directory where a PID file may have been left behind
SpecLeft == InitLeft /\ [][Next]_vars

\* one daemon with its scheduler firing
SpecDaemon == Init /\ [][DaemonNext]_vars

\* the shutdown branch of the signal goroutine: straight-line code that
\* does not wait for anything
Finalize(p) ==
  RouterStop(p) \/ RouterRemove(p) \/ RouterRemoveFails(p) \/ RouterExit(p)

\* one daemon, its scheduler firing, any of the four signals at any time, and
\* a PID file whose removal may fail
ShutdownNext ==
  \/ mode[TheDaemon] = "none" /\ Launch("daemon")
  \/ DStat(TheDaemon) \/ DWrite(TheDaemon) \/ DLoadConfig(TheDaemon)
  \/ DCron(TheDaemon) \/ DGo(TheDaemon)
  \/ RouterRecv(TheDaemon) \/ RouterDone(TheDaemon)
  \/ RouterStop(TheDaemon) \/ RouterRemove(TheDaemon)
  \/ RouterRemoveFails(TheDaemon) \/ RouterExit(TheDaemon)
  \/ \E s \in Signals : EnvSignal(TheDaemon, s)
  \/ \E t \in CronTasks : CronFire(TheDaemon, t) \/ CronDone(TheDaemon, t)
  \/ \E t \in Tasks :
       RTryLock(TheDaemon, t) \/ RBody(TheDaemon, t) \/ RUnlock(TheDaemon, t)

SpecShutdown ==
  Init /\ [][ShutdownNext]_vars /\ WF_vars(Finalize(TheDaemon))

\* non-daemon invocations only, in a working directory where a PID file was
\* left behind: no daemon is alive
OneshotNext ==
  \/ Launch("oneshot")
  \/ \E p \in Procs :
       \/ NRead(p) \/ NProbe(p) \/ NRemove(p) \/ NRun(p) \/ NDone(p)
       \/ RTryLock(p, MainTask) \/ RBody(p, MainTask) \/ RUnlock(p, MainTask)

SpecOneshot == InitLeft /\ [][OneshotNext]_vars

\* non-daemon invocations, one after the other has ended, in a fresh working
\* directory, with the body of runBackup in its steps
RunNext ==
  \/ NoneAlive /\ Launch("oneshot")
  \/ \E p \in Procs :
       \/ NRead(p) \/ NRun(p) \/ NDone(p)
       \/ RTryLock(p, MainTask) \/ RUnlock(p, MainTask)
       \/ BLoadConfig(p, MainTask) \/ BConnect(p, MainTask)
       \/ BDir(p, MainTask) \/ BDb(p, MainTask) \/ BReport(p, MainTask)
       \/ BDeferred(p, MainTask)

SpecRun == Init /\ [][RunNext]_vars

\* the operator connects to a daemon's name, whatever the store holds for it
InitConnect ==
  /\ InitProcs /\ pidFile = NoFile
  /\ build = "part_000"             \* the build that has "--connect"
  /\ store \in [ips : StoredIps, key : StoredKeys]
  /\ ClientOff /\ ServerOff /\ AuxOff

ConnectNext ==
  \/ CStart \/ CB2New \/ CGetIps \/ CFresh \/ CGetKey
  \/ CNext \/ CProbe \/ CDial \/ CSession \/ CWait

SpecConnect == InitConnect /\ [][ConnectNext]_vars

\* the shell server of one working directory over the starts of its daemon,
\* and the parties that connect to it
AuthNext ==
  \/ SLoadHostKey \/ SNewKey \/ SPutKey \/ SStart \/ SExit
  \/ SConnect \/ SDisconnect
  \/ \E key \in Offered, user \in Users : SAuth(key, user)

SpecAuth == InitServer /\ [][AuthNext]_vars

\* the server of a first start listens, nobody is connected
InitListening ==
  /\ InitProcs /\ pidFile = NoFile /\ build = "part_000"
  /\ store = [ips |-> NoBlob, key |-> Key(2)] /\ ClientOff /\ AuxOff
  /\ keyFile = Key(2) /\ hostKey = Key(1) /\ nkeys = 2
  /\ srv = "listening" /\ conn = "none"
  /\ auth = [key |-> NoKey, user |-> "none", ok |-> FALSE]
  /\ NoSession

\* the listening server, parties that connect to it one after the other, and
\* a priv.key file that changes under it
CredNext ==
  \/ \E f \in CredFiles : FileChanges(f)
  \/ SConnect \/ SDisconnect
  \/ \E key \in Offered, user \in Users : SAuth(key, user)

SpecCred == InitListening /\ [][CredNext]_vars

\* two clients and the listening server: the one whose handshake, channel
\* and requests are followed, and another
AcceptNext ==
  \/ SConnect \/ SDisconnect
  \/ \E key \in Offered, user \in Users : SAuth(key, user)
  \/ \E type \in ChannelTypes : SOpenChannel(type)
  \/ \E r \in Requests : SRequest(r)
  \/ ClientClose \/ SRequestsEnd
  \/ PConnect \/ PHandshake \/ PLeave

SpecAccept == InitListening /\ [][AcceptNext]_vars

\* a host with one interface and one address
OneMap == [i \in {"eth0"} |-> <<1>>]

\* the daemon of part_000 over its starts, one after the other has ended, in
\* a working directory and with a store where anything may fail; the
\* operator triggers it and shuts it down, in an interval in which no cron
\* schedule comes due
StartupNext ==
  \/ NoneAlive /\ Launch("daemon")
  \/ NoneAlive /\ DMkdirFails
  \/ \E p \in Procs :
       \/ DStat(p) \/ DRead(p) \/ DProbe(p) \/ DRemove(p) \/ DWrite(p)
       \/ DWriteFails(p)
       \/ DLoadConfig(p) \/ DCron(p)
       \/ DServerStep(p) \/ DSshd(p) \/ DPublish(p, "web1", OneMap) \/ DGo(p)
       \/ RouterRecv(p) \/ RouterDone(p)
       \/ RouterStop(p) \/ RouterRemove(p) \/ RouterExit(p)
       \/ \E s \in {"SIGUSR1", "SIGTERM"} : EnvSignal(p, s)
       \/ RTryLock(p, SigTask) \/ RBody(p, SigTask) \/ RUnlock(p, SigTask)

SpecStartup == InitServer /\ [][StartupNext]_vars

\* two daemons started in one working directory at about the same time; the
\* server of the second is followed from the moment the first one listens
RivalsNext ==
  \/ Launch("daemon")
  \/ \E p \in Procs :
       \/ DStat(p) \/ DRead(p) \/ DProbe(p) \/ DRemove(p) \/ DWrite(p)
       \/ DLoadConfig(p) \/ DCron(p)
       \/ (p = TheDaemon /\ (DServerStep(p) \/ DSshd(p)))
       \/ DRivalStep(p) \/ DRivalSshd(p)
       \/ DPublish(p, "web1", OneMap) \/ DGo(p)
  \/ SConnect \/ SDisconnect
  \/ \E key \in Offered, user \in Users : SAuth(key, user)

SpecRivals == InitServer /\ [][RivalsNext]_vars

\* a Server, created in daemon mode or not, whose Start and Stop are called
\* in any order while clients connect
ServerNext ==
  \/ \E d \in BOOLEAN : ServerNew(d)
  \/ ServerStart \/ ServerStartRun \/ ServerStartGo
  \/ ServerStop \/ ServerStopEnd
  \/ \E k \in Loops : AcceptCall(k) \/ AcceptReturns(k) \/ AcceptCheck(k)

SpecServer == InitServer /\ [][ServerNext]_vars

\* two jobs with any names whose daemons publish to one bucket, and
\* operators who connect to them by name
NamesNext ==
  \E j \in Tenants :
     \/ \E n \in Names : BName(j, n)
     \/ BPutIps(j) \/ BPutKey(j) \/ BGet(j)

SpecNames == InitServer /\ [][NamesNext]_vars

\* hosts without an address, with one, and with two interfaces
PublishMaps ==
  {<< >>, OneMap, [i \in Ifaces |-> IF i = "eth0" THEN <<1, 2>> ELSE <<2>>]}

\* the daemon of part_000 over its starts, on any host, and an operator who
\* fetches the snapshot at any time
PublishNext ==
  \/ NoneAlive /\ Launch("daemon")
  \/ \E p \in Procs :
       \/ DStat(p) \/ DRead(p) \/ DProbe(p) \/ DRemove(p) \/ DWrite(p)
       \/ DLoadConfig(p) \/ DCron(p)
       \/ DServerStep(p) \/ DSshd(p) \/ DGo(p)
       \/ \E h \in Hosts, m \in PublishMaps : DPublish(p, h, m)
       \/ EnvSignal(p, "SIGTERM") \/ RouterRecv(p)
       \/ RouterStop(p) \/ RouterRemove(p) \/ RouterExit(p)
  \/ CStart \/ CB2New \/ CGetIps

SpecPublish == InitServer /\ [][PublishNext]_vars

\* a party that offered the published key is connected to the server of a
\* first start
InitSession ==
  /\ InitProcs /\ pidFile = NoFile /\ build = "part_000"
  /\ store = [ips |-> NoBlob, key |-> Key(2)] /\ ClientOff /\ AuxOff
  /\ keyFile = Key(2) /\ hostKey = Key(1) /\ nkeys = 2
  /\ srv = "listening" /\ conn = "open"
  /\ auth = [key |-> PublicKey(Key(2)), user |-> "root", ok |-> TRUE]
  /\ NoSession

\* the steps of the server's goroutines
ServerStep ==
  \/ SRequestsEnd
  \/ \E s \in Shells : HOpen(s) \/ HStart(s) \/ HCopy(s) \/ HWait(s)
                         \/ GCopy(s) \/ GClose(s)

\* the steps of the client, of the shells and of the users at them
SessionNext ==
  \/ \E type \in ChannelTypes : SOpenChannel(type)
  \/ \E r \in Requests : SRequest(r)
  \/ ClientClose
  \/ \E s \in Shells : ShellExit(s) \/ GCopyWriteFails(s)
  \/ ServerStep

\* the goroutines of the server are scheduled; the client and the shells
\* take their steps when they choose to
SpecSession == InitSession /\ [][SessionNext]_vars /\ WF_vars(ServerStep)

\* ------------------------------------------------------------ properties
\* task t of process p executes the run body: the lock is taken, not released
InBody(p, t) == rpc[p][t] \in {"body", "unlock"}

\* C1: in a daemon, whatever the order of cron firings and trigger signals,
\* at most one goroutine is inside the run body at any time.
C1_AtMostOneRun ==
  \A p \in Procs : Cardinality({t \in Tasks : InBody(p, t)}) <= 1

\* C1 witness: a run is in progress while another trigger has called runBackup
C1_Witness ==
  \E p \in Procs : \E t, u \in Tasks :
     t # u /\ InBody(p, t) /\ rpc[p][u] = "lock" /\ busyAtCall[p][u]

\* C2: a trigger that arrives while a run is in progress is skipped: it
\* never executes a run body of its own and never returns from one.
C2_BusyTriggerSkipped ==
  \A p \in Procs : \A t \in Tasks :
     busyAtCall[p][t] =>
       /\ ~InBody(p, t)
       /\ status[p][t] \notin {"returned", "recovered"}

\* C3: when runBackup has returned, the caller no longer holds the lock,
\* whatever the exit path; when no goroutine is inside the run body the lock
\* is free and the flag is clear, so that the next trigger acquires it.
C3_LockReleasedOnReturn ==
  \A p \in Procs :
     /\ \A t \in Tasks : rpc[p][t] = "ret" => backupLock[p] # t
     /\ (\A t \in Tasks : ~InBody(p, t)) =>
           backupLock[p] = NoTask /\ ~isBackupRunning[p]

\* C3 witness: a run that panicked has returned and the lock is free
C3_Witness ==
  \E p \in Procs : \E t \in Tasks :
     /\ rpc[p][t] = "ret" /\ status[p][t] = "recovered"
     /\ backupLock[p] = NoTask /\ ~isBackupRunning[p]

\* daemon p has written the PID file and gone on with its startup
Claimed(p) ==
  mode[p] = "daemon" /\ pc[p] \in {"loadcfg", "cron", "sshd", "publish", "go", "serve"}

\* C4: at most one live daemon at a time is past the singleton claim.
C4_AtMostOneClaimed ==
  Cardinality({p \in Procs : Claimed(p)}) <= 1

\* daemon p holds the singleton: it has claimed it and its shutdown has not
\* yet removed the PID file
HoldsSingleton(p) == Claimed(p) /\ router[p] # "exit"

\* C5: the PID file exists exactly when a live daemon holds the singleton,
\* and it then records that daemon's pid.
C5_PidFileIffHolder ==
  /\ pidFile.exists => \E p \in Procs : HoldsSingleton(p) /\ pidFile = File(Itoa(p))
  /\ \A p \in Procs : HoldsSingleton(p) => pidFile = File(Itoa(p))

\* a sequence of characters is a decimal integer
IsDecimal(d) == d # << >> /\ \A i \in 1..Len(d) : d[i] \in DigitSet

\* the process a decimal PID file content records
RECURSIVE Recorded(_)
Recorded(d) == IF d = << >> THEN 0
               ELSE 10 * Recorded(SubSeq(d, 1, Len(d) - 1))
                    + (CHOOSE n \in 0..9 : Digits[n + 1] = d[Len(d)])

\* process p takes a step of main()
Steps(p) == pc'[p] # pc[p]

\* C6: a daemon startup whose probe of the recorded process succeeds ends
\* with AlreadyRunning: the PID file is left as it is, and neither the
\* scheduler nor the signal goroutine is started.
C6_LiveHolderRefuses ==
  [][\A p \in Procs :
       (IsDaemonAt(p, "probe") /\ Alive(Recorded(pidData[p])) /\ Steps(p))
         => /\ pc'[p] = "exited" /\ exit'[p] = "AlreadyRunning"
            /\ pidFile' = pidFile
            /\ ~cronOn'[p] /\ router'[p] = "off"]_vars

\* C6 witness: a startup has ended with AlreadyRunning, the holder lives on
\* and the PID file still records it
C6_Witness ==
  \E p, q \in Procs :
     /\ exit[p] = "AlreadyRunning"
     /\ HoldsSingleton(q) /\ pidFile = File(Itoa(q))

\* C7: a daemon startup that finds a PID file that is unreadable, is not a
\* decimal integer, or records a process that does not exist, deletes the
\* file, writes its own pid and goes on with its startup.
C7_StaleReclaimed ==
  [][\A p \in Procs :
       /\ (IsDaemonAt(p, "read") /\ Steps(p) /\ pidFile.exists
             /\ (~pidFile.readable \/ ~IsDecimal(pidFile.data)))
            => pc'[p] = "remove"
       /\ (IsDaemonAt(p, "probe") /\ Steps(p) /\ ~Alive(Recorded(pidData[p])))
            => pc'[p] = "remove"
       /\ (IsDaemonAt(p, "remove") /\ Steps(p))
            => pc'[p] = "write" /\ ~pidFile'.exists
       /\ (IsDaemonAt(p, "write") /\ Steps(p))
            => pc'[p] = "loadcfg" /\ pidFile' = File(Itoa(p))]_vars

\* C7 witness: the first daemon reclaimed the file left behind and died of a
\* configuration error; a later daemon has reclaimed its file in turn
C7_Witness ==
  \E p \in Procs :
     /\ p # FirstPid /\ exit[FirstPid] = "ConfigError"
     /\ Claimed(p) /\ pidFile = File(Itoa(p))

\* C8: a terminate signal is acted on at once: none waits in the channel
\* while the signal goroutine is inside runBackup.
C8_TerminateActedOn ==
  \A p \in Procs :
     (sig[p] # << >> /\ Head(sig[p]) \in TermSignals) => router[p] # "run"

\* C9: the signal goroutine performs no blocking operation: it is never
\* inside a backup run and never waits for the run lock.
C9_RouterNeverBlocks ==
  \A p \in Procs :
     /\ ~InBody(p, SigTask)
     /\ ~(rpc[p][SigTask] = "lock" /\ backupLock[p] # NoTask)

\* C10 as stated: a non-daemon invocation whose probe succeeded delivers the
\* trigger signal and returns at once, leaving the PID file as it is.
C10_ProbeOkTriggers ==
  [][\A p \in Procs :
       (IsOneshotAt(p, "nsignal") /\ Steps(p))
         => /\ pc'[p] = "exited" /\ exit'[p] = "Triggered"
            /\ pidFile' = pidFile]_vars

\* C10 amended: it does so when the recorded process is still alive as the
\* trigger signal is sent; the signal is then in that daemon's channel unless
\* the channel is full. When the process has gone since the probe, the
\* invocation goes on to remove the PID file.
C10_LiveTargetTriggered ==
  [][\A p \in Procs :
       (IsOneshotAt(p, "nsignal") /\ Steps(p))
         => LET target == Recorded(TrimSpace(pidData[p])) IN
            IF Alive(target)
            THEN /\ pc'[p] = "exited" /\ exit'[p] = "Triggered"
                 /\ pidFile' = pidFile
                 /\ rpc'[p] = IdleTasks
                 /\ (Len(sig[target]) < SigCap
                       => sig'[target] = Append(sig[target], "SIGUSR1"))
            ELSE pc'[p] = "nremove"]_vars

\* C10 witness: an invocation has returned after triggering the daemon, which
\* still holds the PID file
C10_Witness ==
  \E p, q \in Procs :
     /\ exit[p] = "Triggered"
     /\ HoldsSingleton(q) /\ pidFile = File(Itoa(q))

\* C11: a non-daemon invocation whose probe finds the recorded process dead
\* sends it no trigger signal and never probes again: it goes on to delete the
\* PID file and then calls runBackup in its own process, where it takes the
\* run lock (it is never skipped).
C11_DeadTargetRunsItself ==
  [][\A p \in Procs :
       /\ (IsOneshotAt(p, "nprobe") /\ Steps(p)
             /\ ~Alive(Recorded(TrimSpace(pidData[p]))))
            => pc'[p] = "nremove" /\ sig' = sig
       /\ (IsOneshotAt(p, "nremove") /\ Steps(p))
            => pc'[p] = "nrun" /\ ~pidFile'.exists /\ sig' = sig
       /\ (IsOneshotAt(p, "nrun") /\ Steps(p))
            => pc'[p] = "nwait" /\ rpc'[p][MainTask] = "lock"
       /\ (pc'[p] = "nprobe" /\ Steps(p)) => pc[p] = "nread"
       /\ (pc'[p] = "nread" /\ Steps(p)) => pc[p] = "none"
       /\ (mode[p] = "oneshot" => status'[p][MainTask] # "skipped")]_vars

\* C11 witness: an invocation that read the newline-terminated pid of a dead
\* process has probed it and is about to delete the file
C11_Witness ==
  \E p \in Procs :
     /\ IsOneshotAt(p, "nremove")
     /\ pidFile = File(Itoa(DeadPid) \o <<"\n">>)

\* the snapshot is older than one hour: now - capturedAt, in nanoseconds,
\* exceeds 3600 * 10^9
OlderThanAnHour(ts) ==
  \/ Now.sec - ts.sec > 3600
  \/ Now.sec - ts.sec = 3600 /\ Now.nsec > ts.nsec

\* the client has gone past the staleness check
AcceptedSnapshot ==
  \/ cpc \in {"getkey", "next", "probe", "dial", "session", "wait"}
  \/ result.kind \in {"CredentialError", "KeyParseError", "NoReachableHost", "ok"}

\* C12: the client rejects the snapshot it downloaded with StaleSnapshot
\* exactly when it is older than one hour: a snapshot captured one second
\* ago, and one aged exactly one hour, are accepted.
C12_StaleIffOlderThanHour ==
  /\ result.kind = "StaleSnapshot" => OlderThanAnHour(ipInfo.ts)
  /\ AcceptedSnapshot => ~OlderThanAnHour(ipInfo.ts)
  /\ (ipInfo.kind = "snapshot"
        /\ ipInfo.ts \in {Time(Now.sec - 1, Now.nsec), Time(Now.sec - 3600, Now.nsec)})
       => result.kind # "StaleSnapshot"

\* C12 witness: a snapshot aged exactly one hour has passed the check
C12_Witness ==
  /\ ipInfo.kind = "snapshot" /\ ipInfo.ts = Time(Now.sec - 3600, Now.nsec)
  /\ cpc = "getkey"

\* C13: when the client rejects the snapshot as stale it has probed and
\* dialed no address, opened no session and not downloaded the credential;
\* nothing of that happens before the staleness check either.
C13_StaleBeforeAnythingElse ==
  (result.kind = "StaleSnapshot" \/ cpc \in {"getips", "fresh"})
    => probes = << >> /\ ndials = 0 /\ sessions = 0 /\ ~keyLoaded

\* C13 witness: a stale snapshot with candidates, and a credential in the
\* store, has been rejected
C13_Witness ==
  /\ result.kind = "StaleSnapshot"
  /\ store.key = Key(1) /\ ipInfo.ifs # << >>

\* C14: once a session has been established with a candidate the client
\* stops: it is in that session or has returned, and no second session is
\* opened, however the session ends.
C14_StopsAtFirstSession ==
  /\ sessions <= 1
  /\ sessions = 1 => cpc \in {"wait", "done"}
  /\ (sessions = 1 /\ cpc = "done") => result.kind = "ok"

\* the candidates of the downloaded snapshot
AllEntries ==
  UNION {{<<i, k>> : k \in 1..Len(ipInfo.ifs[i])} : i \in DOMAIN ipInfo.ifs}

\* no candidate is tried twice, so there are at most as many attempts as the
\* snapshot has addresses; an empty snapshot is not tried at all
TriedAtMostOnce ==
  /\ \A a, b \in 1..Len(probes) : probes[a] = probes[b] => a = b
  /\ \A a \in 1..Len(probes) : probes[a] \in AllEntries
  /\ ndials <= Len(probes) /\ sessions <= ndials

\* connect fails with NoReachableHost only after the last candidate, with
\* the last error seen
FailsAfterLastCandidate ==
  result.kind = "NoReachableHost"
    => /\ {probes[a] : a \in 1..Len(probes)} = AllEntries
       /\ result.err = lastErr
       /\ (AllEntries = {} <=> result.err = NoErr)

\* C15: a failure at a candidate is absorbed and the next one is tried, each
\* at most once; connect fails with NoReachableHost only when every candidate
\* has been tried without success, and then reports the last error seen.
C15_FailsOnlyWithoutSuccess ==
  /\ TriedAtMostOnce
  /\ FailsAfterLastCandidate
  /\ result.kind = "NoReachableHost" => sessions = 0

\* the public key of the credential published to the object store
Published == IF store.key[1] = "key" THEN <<"ssh-rsa", store.key[2]>> ELSE NoKey

Started == {s \in Shells : sh[s].proc # "none"}

\* C17: whatever requests the client sends on an accepted session channel,
\* no more than one shell process is started for it.
C17_OneShellPerSession == Cardinality(Started) <= 1

\* C18: a shell session ends at the first of the two events: once the shell
\* has exited, or the channel is closed, handleShell returns without
\* waiting for the other event.
C18_EndsAtFirstEvent ==
  \A s \in Shells :
     (sh[s].proc = "exited" \/ (sh[s].proc = "running" /\ ch # "open"))
       ~> sh[s].pc = "done"

\* C19: the pseudo-terminal of a session is released on every exit path: a
\* session whose channel is closed, or whose shell has exited, does not keep
\* it open for ever.
C19_PtyReleased ==
  \A s \in Shells :
     (sh[s].pty = "open" /\ (ch # "open" \/ sh[s].proc = "exited"))
       ~> sh[s].pty = "closed"

\* a channel-open of another type than "session" is rejected
OtherChannelsRejected ==
  opened.type # "none"
    => opened.reply = IF opened.type = "session" THEN "accept" ELSE "reject"

\* a request other than "shell" that asks for a reply gets a negative one
OtherRequestsRefused ==
  (lastReq.type \notin {"none", "shell"} /\ lastReq.want) => lastReq.reply = "fail"

\* no request that asks for a reply is left without one
NoRequestUnanswered == lastReq.want => lastReq.reply # "none"

\* C20: only the session channel type and the shell request are served:
\* every other channel-open is rejected, every other channel request is
\* refused, and whatever asks for a reply gets one.
C20_SingleSessionType ==
  OtherChannelsRejected /\ OtherRequestsRefused /\ NoRequestUnanswered

\* the other client's handler stands still: in the handshake, after a failed
\* authentication, or in a shell session
PeerHolds == peer \in {"handshake", "failed", "session"}

\* C21: whatever another connection's handler does or waits for, the accept
\* loop of the listening server can accept the next connection, and the
\* handshake, the channel-open and the requests of an accepted connection
\* can go on; the same holds for the other connection.
C21_OwnTaskPerConnection ==
  /\ (srv = "listening" /\ conn = "none") => ENABLED SConnect
  /\ (srv = "listening" /\ peer = "none") => ENABLED PConnect
  /\ conn = "auth" => \A key \in Offered, user \in Users : ENABLED SAuth(key, user)
  /\ (conn = "open" /\ ch = "none") => ENABLED SOpenChannel("session")
  /\ ch = "open" => \A r \in Requests : r.type # "shell" => ENABLED SRequest(r)
  /\ peer = "handshake" => ENABLED PHandshake

\* C21 witness: while the other client holds a shell session a connection
\* was accepted, was refused a key and is still in its handshake
C21_Witness ==
  /\ peer = "session" /\ srv = "listening"
  /\ conn = "auth" /\ auth.key # NoKey /\ ~auth.ok

\* C22: whatever the outcome of NewServer, of Start and of CollectAndStoreIPs,
\* the daemon goes on: from the server to the publish, from the publish to
\* the signal goroutine, with the scheduler running; a trigger signal it
\* then receives calls runBackup, which takes the lock and enters the body.
C22_PublishFailuresNotFatal ==
  [][\A p \in Procs :
       /\ (IsDaemonAt(p, "sshd") /\ Steps(p))
            => pc'[p] = "publish" /\ cronOn'[p] /\ exit'[p] = "none"
       /\ (IsDaemonAt(p, "publish") /\ Steps(p))
            => pc'[p] = "go" /\ cronOn'[p] /\ exit'[p] = "none"
       /\ (IsDaemonAt(p, "go") /\ Steps(p))
            => pc'[p] = "serve" /\ router'[p] = "recv" /\ cronOn'[p]
       /\ (IsDaemonAt(p, "serve") /\ router[p] = "recv" /\ router'[p] # "recv"
             /\ Head(sig[p]) = "SIGUSR1")
            => router'[p] = "run" /\ rpc'[p][SigTask] = "lock"
       /\ (rpc[p][SigTask] = "lock" /\ rpc'[p][SigTask] # "lock")
            => rpc'[p][SigTask] = "body"]_vars

\* C22 witness: the server could not be created, nothing is in the store, and
\* the daemon executes a triggered run with its scheduler running
C22_Witness ==
  \E p \in Procs :
     /\ IsDaemonAt(p, "serve") /\ cronOn[p] /\ rpc[p][SigTask] = "body"
     /\ srv = "failed" /\ store = NoStore

\* C23: the credential is generated once: when a credential is published and
\* the local file holds it, no later step (no restart of the daemon) changes
\* the key in the local file or the key in the store.
C23_CredentialGeneratedOnce ==
  [][(store.key[1] = "key" /\ keyFile = store.key)
       => keyFile' = keyFile /\ store'.key = store.key]_vars

\* the host key file of loadOrGenerateHostKey and the credential file of
\* uploadPrivateKey and handlePublicKey: both are .avolut/priv.key
HostKeyFile    == keyFile
CredentialFile == keyFile

\* C24: loading or generating the host key (NewServer up to AddHostKey)
\* leaves the credential file as it is, and generating the credential
\* (uploadPrivateKey) leaves the host key file as it is.
C24_IndependentKeyFiles ==
  [][/\ (srv = "off" /\ srv' # "off") => CredentialFile' = CredentialFile
     /\ (srv = "upload" /\ srv' # "upload") => HostKeyFile' = HostKeyFile]_vars

\* two IPInfo have the same hostname and the same interfaces with the same
\* addresses in the same order
SameSnapshot(a, b) == a.host = b.host /\ a.ifs = b.ifs /\ a.ts = b.ts

ConfigOrder ==
  [k \in 1..(run.dirs + run.dbs) |->
     IF k <= run.dirs THEN <<"dir", k>> ELSE <<"db", k - run.dirs>>]

\* some attempt of the run returned an error
SomeItemFailed == \E k \in 1..Len(run.tried) : run.tried[k].end = "error"

\* C26: the attempts of a run are the configured items in configuration
\* order, each once, whatever attempts returned an error before; a run that
\* no panic and no connection error ended reports after the last item, and
\* reports "completed with errors" exactly when an attempt returned an error.
C26_ItemFailuresDoNotAbort ==
  /\ Len(run.tried) <= run.dirs + run.dbs
  /\ \A k \in 1..Len(run.tried) :
        <<run.tried[k].kind, run.tried[k].ix>> = ConfigOrder[k]
  /\ run.hasErrors <=> SomeItemFailed
  /\ run.report # "none"
       => /\ Len(run.tried) = run.dirs + run.dbs
          /\ run.report = "withErrors" <=> SomeItemFailed
  /\ (run.at \in {"dirs", "dbs", "report"}
        \/ (run.at \in {"defers", "returned"} /\ run.report # "none"))
       => \A k \in 1..Len(run.tried) : run.tried[k].end # "panic"
  /\ (run.at \in {"defers", "returned"} /\ run.report = "none" /\ run.tried # << >>)
       => run.tried[Len(run.tried)].end = "panic"

\* C26 witness: the first directory failed, the database after it failed too,
\* and the run has reported "completed with errors" after its last item
C26_Witness ==
  /\ run.report = "withErrors" /\ run.dirs = MaxItems /\ run.dbs = MaxItems
  /\ run.tried[1].end = "error" /\ run.tried[MaxItems + 1].end = "error"
  /\ run.tried[MaxItems + MaxItems].end = "nil"

\* C27: a daemon start at which the working directory cannot be created, or
\* the PID file cannot be written, ends there with a non-zero status: its
\* scheduler and its signal goroutine were not started, it has no server and
\* it leaves the store as it is.
C27_FileErrorsFatal ==
  [][\A p \in Procs :
       /\ (mode[p] = "none" /\ mode'[p] = "daemon" /\ pc'[p] # "stat")
            => /\ pc'[p] = "exited" /\ ExitCode(exit'[p]) # 0
               /\ srv' = "off" /\ store' = store /\ pidFile' = pidFile
       /\ (IsDaemonAt(p, "write") /\ Steps(p) /\ pidFile' # File(Itoa(p)))
            => /\ pc'[p] = "exited" /\ ExitCode(exit'[p]) # 0
               /\ ~cronOn[p] /\ router[p] = "off" /\ rpc[p] = IdleTasks
               /\ srv = "off" /\ srv' = "off" /\ store' = store]_vars

\* C27 witness: one start has ended at the working directory, another at the
\* PID file, which it left empty
C27_Witness ==
  \E p, q \in Procs :
     /\ exit[p] = "DirError" /\ exit[q] = "PidFileError"
     /\ pidFile = File(<< >>)

\* C28: the server is created only by a daemon that has claimed the PID file;
\* it listens only when the credential is in the store and the publisher has
\* run: main() is past CollectAndStoreIPs.
C28_PublishBeforeListen ==
  \A p \in Procs :
     (Alive(p) /\ mode[p] = "daemon")
       => /\ srv # "off" => Claimed(p)
          /\ srv = "listening" => store.key[1] = "key"
          /\ srv = "listening" => pc[p] \in {"go", "serve"}

\* daemon p is in the shutdown branch of its signal goroutine
InShutdown(p) == Alive(p) /\ router[p] \in {"stop", "remove", "exit"}

\* C29: the shutdown branch stops the scheduler, then attempts the removal of
\* the PID file, then exits: the removal is attempted only with the scheduler
\* stopped, a daemon exits with "Shutdown" only after the attempt, whether the
\* file was removed or not, and a shutdown that has begun does exit.
C29_ShutdownOrder ==
  /\ [][\A p \in Procs :
          /\ (router[p] = "stop" /\ router'[p] # "stop")
               => router'[p] = "remove" /\ ~cronOn'[p] /\ pidFile' = pidFile
          /\ (router[p] = "remove" /\ router'[p] # "remove")
               => /\ router'[p] = "exit" /\ ~cronOn[p] /\ Alive(p)'
                  /\ pidFile' \in {NoFile, pidFile}
          /\ (exit'[p] = "Shutdown" /\ exit[p] # "Shutdown")
               => router[p] = "exit" /\ ~cronOn[p] /\ pidFile' = pidFile]_vars
  /\ \A p \in {TheDaemon} : InShutdown(p) ~> (exit[p] = "Shutdown")

\* C29 witness: the daemon has exited through the shutdown whose removal of
\* the PID file failed
C29_Witness ==
  exit[TheDaemon] = "Shutdown" /\ pidFile = File(Itoa(TheDaemon))

\* C30: a daemon enters the shutdown branch only from the receive, and once it
\* is in it, it only moves forward to the exit: no step starts a run of the
\* signal goroutine or takes the branch again, whatever signals arrive; an
\* exited daemon handles nothing.
C30_SingleShutdown ==
  [][\A p \in Procs :
       /\ (router'[p] = "stop" /\ router[p] # "stop") => router[p] = "recv"
       /\ InShutdown(p)
            => /\ rpc[p][SigTask] = "idle" /\ rpc'[p][SigTask] = "idle"
               /\ router'[p] \in
                    CASE router[p] = "stop"   -> {"stop", "remove"}
                      [] router[p] = "remove" -> {"remove", "exit"}
                      [] OTHER                -> {"exit", "off"}
       /\ pc[p] = "exited" => router'[p] = "off" /\ pc'[p] = "exited"]_vars

\* C30 witness: signals of both kinds have arrived during the shutdown, which
\* is about to exit with a trigger pending
C30_Witness ==
  /\ router[TheDaemon] = "exit" /\ Alive(TheDaemon)
  /\ sig[TheDaemon] = <<"SIGUSR1">>

\* C31: one goroutine handles the signals one after the other: a signal is
\* taken from the channel only when the handling of the one before has ended,
\* a run started by a trigger signal is in progress only while the goroutine
\* is in its SIGUSR1 case, and never while it is in the shutdown case.
C31_SignalsSerialized ==
  /\ [](\A p \in Procs :
          /\ (Alive(p) /\ rpc[p][SigTask] # "idle") => router[p] = "run"
          /\ InShutdown(p) => rpc[p][SigTask] = "idle")
  /\ [][\A p \in Procs :
          (Alive(p) /\ Alive(p)' /\ Len(sig'[p]) < Len(sig[p]))
            => /\ router[p] = "recv" /\ rpc[p][SigTask] = "idle"
               /\ router'[p] = IF Head(sig[p]) = "SIGUSR1" THEN "run" ELSE "stop"]_vars

\* C31 witness: a termination signal waits in the channel while the run of a
\* trigger signal is in its body
C31_Witness ==
  /\ router[TheDaemon] = "run" /\ rpc[TheDaemon][SigTask] = "body"
  /\ sig[TheDaemon] = <<"SIGTERM">>

\* ConnectToRepository has returned the repository r to the run
Returned(r) == r \in {"open", "closed"}

\* C32: an item is attempted only in a run to which both repositories were
\* returned, the one of the files before the one of the databases; a run that
\* a failed connection ended has attempted nothing; and a database is
\* attempted only after every directory was.
C32_ConnectBeforeItems ==
  /\ run.tried # << >> => Returned(run.files) /\ Returned(run.dbRepo)
  /\ run.at \in {"dirs", "dbs", "report"} => run.files = "open" /\ run.dbRepo = "open"
  /\ run.dbRepo # "none" => Returned(run.files)
  /\ run.out \in {"fileRepoError", "dbRepoError"}
       => /\ run.tried = << >> /\ run.report = "none"
          /\ ~Returned(IF run.out = "fileRepoError" THEN run.files ELSE run.dbRepo)
  /\ \A k \in 1..Len(run.tried) :
        run.tried[k].kind = "db"
          => /\ k > run.dirs
             /\ \A j \in 1..run.dirs : run.tried[j].kind = "dir"

\* C32 witness: the repository of the files was connected, the one of the
\* databases was not, and the run has ended with its directories and
\* databases not attempted
C32_Witness ==
  /\ run.at = "returned" /\ run.out = "dbRepoError" /\ run.files = "closed"
  /\ run.dirs = MaxItems /\ run.dbs = MaxItems /\ run.tried = << >>

\* C33: when a run releases the run lock, every repository it opened is
\* closed, its context is cancelled and none of its deferred functions is
\* left to run.
C33_ClosedBeforeUnlock ==
  [][\A p \in Procs :
       (Alive(p)' /\ backupLock[p] # NoTask /\ backupLock'[p] = NoTask)
         => /\ run.files \in {"none", "closed"}
            /\ run.dbRepo \in {"none", "closed"}
            /\ run.ctx = "cancelled" /\ run.defers = << >>]_vars

\* C34: the os.Remove of a non-daemon invocation never takes away a PID file
\* that records a live daemon.
C34_LiveDaemonFileKept ==
  [][\A p \in Procs :
       (IsOneshotAt(p, "nremove") /\ pc'[p] = "nrun" /\ pidFile.exists)
         => ~ /\ OneshotParse(pidFile.data).ok
              /\ Alive(OneshotParse(pidFile.data).val)
              /\ mode[OneshotParse(pidFile.data).val] = "daemon"]_vars

\* C35: while the shell server of a daemon listens, the credential in the
\* object store is the content of the priv.key file that handlePublicKey
\* reads.
C35_PublishedIsLocal ==
  (srv = "listening" \/ rival.at = "listening")
    => keyFile[1] = "key" /\ store.key = keyFile

\* handlePublicKey has decided on an offered key in this step
Decides == conn = "auth" /\ (auth' # auth \/ conn' = "open")

\* C36: a decision of handlePublicKey made while priv.key is missing,
\* unreadable or not a private key is a rejection, whatever key is offered;
\* and every decision accepts exactly when the offered key is the public key
\* of the file as it is at that moment, whatever was decided before.
C36_FailsClosed ==
  [][Decides =>
       /\ keyFile[1] # "key" => ~auth'.ok /\ conn' = "auth"
       /\ auth'.ok <=> (keyFile[1] = "key" /\ auth'.key = <<"ssh-rsa", keyFile[2]>>)
       /\ conn' = "open" <=> auth'.ok]_vars

\* C36 witness: the key that was accepted on an earlier connection is
\* offered again and refused, the file being gone
C36_Witness ==
  /\ srv = "listening" /\ conn = "auth" /\ keyFile = NoKey
  /\ auth.key = <<"ssh-rsa", 2>> /\ ~auth.ok

\* a call of Start or Stop has returned in this step
CallReturned(op, ok) ==
  svc'.last # svc.last /\ svc'.last.op = op /\ svc'.last.ok = ok

\* what Start and Stop may change
Serving(s) == <<s.running, s.listener, s.open, s.nlisten, s.loops>>

\* C37: a Start that returns an error (server already running, not created
\* in daemon mode, port not bound) changes nothing of the server; a Start
\* that succeeds was called with the server not running; a server not
\* created in daemon mode never has a listener; and between calls running is
\* true exactly when the last call that succeeded was a Start.
C37_StartOnlyOnSuccess ==
  /\ [](/\ (svc.made /\ ~svc.isDaemon) => Serving(svc) = Serving(NoSvc)
        /\ svc.call = "none" => (svc.running <=> svc.lastOk = "start")
        /\ Cardinality(svc.open) <= 1)
  /\ [][/\ CallReturned("start", FALSE) => Serving(svc') = Serving(svc)
        /\ (svc.call = "none" /\ svc'.call = "run")
             => ~svc.running /\ svc.isDaemon /\ svc.open = {}
        /\ CallReturned("stop", FALSE) => Serving(svc') = Serving(svc)]_vars

\* C37 witness: after a Stop and a second Start, a further Start has
\* returned its error with the server running
C37_Witness ==
  /\ svc.running /\ svc.call = "none" /\ svc.nlisten = MaxStarts
  /\ svc.last.op = "start" /\ ~svc.last.ok /\ svc.lastOk = "start"

\* the accept loops that are in Accept of the server's current listener
OnCurrent ==
  {k \in Loops : svc.loops[k].pc = "accept" /\ svc.loops[k].on = svc.listener}

\* C38: no two accept loops serve the current listener, a loop started
\* before a Stop that succeeded does not accept from a listener of a later
\* Start, and a Stop of a server that is not running changes nothing.
C38_OneAcceptLoop ==
  /\ [](/\ Cardinality(OnCurrent) <= 1
        /\ \A k \in Loops : svc.loops[k].pc # "none" => svc.loops[k].on \in {0, k})
  /\ [][(CallReturned("stop", TRUE) /\ ~svc.running) => Serving(svc') = Serving(svc)]_vars

\* C39: every object a daemon has uploaded is the object ConnectToHost reads
\* for the daemon's job name, and no object is uploaded by the daemons of
\* two different job names.
C39_SameNamesBothSides ==
  /\ \A u \in bucket.objs : u.obj = ClientObject(bucket.name[u.by], u.id)
  /\ \A u, v \in bucket.objs :
        u.obj = v.obj => bucket.name[u.by] = bucket.name[v.by]

\* C40: between calls of TryLock and Unlock the flag isBackupRunning is set
\* exactly when backupLock is held, and its holder is a goroutine inside a
\* run (past TryLock, before the return of Unlock); a TryLock that gets the
\* mutex finds the flag clear and returns true; Unlock is called only by the
\* goroutine that holds the mutex, and the mutex is released by nothing else
\* while the process lives.
C40_FlagMatchesMutex ==
  /\ [](\A p \in Procs :
          /\ isBackupRunning[p] <=> backupLock[p] # NoTask
          /\ backupLock[p] # NoTask =>
                rpc[p][backupLock[p]] \in {"body", "unlock"}
          /\ \A t \in Tasks :
                rpc[p][t] \in {"body", "unlock"} => backupLock[p] = t)
  /\ [][\A p \in Procs : Alive(p)' =>
          /\ \A t \in Tasks :
                /\ (rpc[p][t] = "lock" /\ rpc'[p][t] # "lock") =>
                      /\ ~isBackupRunning[p] /\ backupLock[p] = NoTask
                      /\ rpc'[p][t] = "body" /\ backupLock'[p] = t
                /\ (rpc[p][t] = "unlock" /\ rpc'[p][t] # "unlock") =>
                      backupLock[p] = t /\ backupLock'[p] = NoTask
          /\ (backupLock[p] # NoTask /\ backupLock'[p] # backupLock[p]) =>
                /\ rpc[p][backupLock[p]] = "unlock"
                /\ rpc'[p][backupLock[p]] = "ret"]_vars

\* a run holds the lock that was called while another run had it, waited
\* in TryLock and got the mutex from that run's Unlock; the next caller
\* waits in TryLock
C40_Witness ==
  \E p \in Procs : \E t, u \in Tasks :
     /\ t # u
     /\ backupLock[p] = u /\ isBackupRunning[p]
     /\ busyAtCall[p][u] /\ rpc[p][u] = "body"
     /\ rpc[p][t] = "lock"

====
